---- MODULE Spec2Model ----
(***************************************************************************)
(* build-cache: a content-addressed cache of installed Go build outputs.   *)
(* The model covers the command handlers save, restore and clear           *)
(* (main.go), the link-or-copy primitive they share, and the package       *)
(* fingerprint and staleness computations (pkg.go), over a small file      *)
(* system with inodes, hard links and modification times.                  *)
(*                                                                         *)
(* Strings that are hashed or compared are sequences of one-character      *)
(* strings, so that concatenation, ordering and "contains" are computed.   *)
(***************************************************************************)
EXTENDS Naturals, Sequences, FiniteSets, TLC

(***************************************************************************)
(* Bounds of the model.                                                    *)
(***************************************************************************)
MaxRuns == 2        \* invocations of the tool in one behaviour
MaxEnv == 1         \* steps of the world around the tool (edit, build,
                    \* removal, clock tick) in one behaviour
MaxDepth == 6       \* calls of loadImport under way at one time

(***************************************************************************)
(* Characters and strings.                                                 *)
(***************************************************************************)
\* Byte order of the characters that occur in import paths (ASCII order).
Alphabet == <<".", "/", "0", "1", "2", "3", "4", "5", "6", "7", "8", "9",
              ":", "_", "a", "b", "c", "d", "e", "f", "g", "h", "i", "j", "k",
              "l", "m", "n", "o", "p", "q", "r", "s", "t", "u", "v", "w",
              "x", "y", "z">>

Ord(c) == CHOOSE i \in 1..Len(Alphabet) : Alphabet[i] = c

\* Go's < on strings: byte-wise lexicographic order.
RECURSIVE StrLess(_, _)
StrLess(a, b) ==
    IF b = <<>> THEN FALSE
    ELSE IF a = <<>> THEN TRUE
    ELSE IF Head(a) # Head(b) THEN Ord(Head(a)) < Ord(Head(b))
    ELSE StrLess(Tail(a), Tail(b))

\* strings.Contains(s, c) for a one-character c.
ContainsChar(s, c) == \E i \in 1..Len(s) : s[i] = c

\* stringList flattens a sequence of string lists into one list.
RECURSIVE stringList(_)
stringList(args) ==
    IF args = <<>> THEN <<>> ELSE Head(args) \o stringList(Tail(args))

\* The bytes written to a hash by a loop of h.Write([]byte(s)) over a list:
\* the strings back to back.
RECURSIVE WriteAll(_)
WriteAll(list) ==
    IF list = <<>> THEN <<>> ELSE Head(list) \o WriteAll(Tail(list))

(***************************************************************************)
(* The build metadata of the workspace: what build.Context.Import returns. *)
(* Three ordinary packages in one GOPATH tree, e.z imports e.y imports     *)
(* e.x, and the standard package runtime that every package imports        *)
(* implicitly.                                                             *)
(***************************************************************************)
Units   == {"e.x", "e.y", "e.z", "runtime"}
WsUnits == {"e.x", "e.y", "e.z"}

ImportPath ==
    "e.x" :> <<"e", ".", "x">> @@ "e.y" :> <<"e", ".", "y">> @@
    "e.z" :> <<"e", ".", "z">> @@
    "runtime" :> <<"r", "u", "n", "t", "i", "m", "e">>

Goroot == [u \in Units |-> u = "runtime"]
Root   == [u \in Units |-> IF u = "runtime" THEN "goroot" ELSE "gopath"]
PkgObj == [u \in Units |-> u]         \* the install path, one per package
Imports ==
    "e.x" :> <<>> @@ "e.y" :> <<"e.x">> @@ "e.z" :> <<"e.y", "e.x">> @@
    "runtime" :> <<>>

NoFiles == <<>>
GoFiles ==
    "e.x" :> <<"x.go">> @@ "e.y" :> <<"y.go">> @@ "e.z" :> <<"z.go">> @@
    "runtime" :> <<"r.go">>
TestGoFiles ==
    "e.x" :> <<"x_test.go">> @@ "e.y" :> NoFiles @@ "e.z" :> NoFiles @@
    "runtime" :> NoFiles
CgoFiles      == [u \in Units |-> NoFiles]
CFiles        == [u \in Units |-> NoFiles]
CXXFiles      == [u \in Units |-> NoFiles]
MFiles        == [u \in Units |-> NoFiles]
HFiles        == [u \in Units |-> NoFiles]
SFiles        == [u \in Units |-> NoFiles]
SwigFiles     == [u \in Units |-> NoFiles]
SwigCXXFiles  == [u \in Units |-> NoFiles]
SysoFiles     == [u \in Units |-> NoFiles]
XTestGoFiles  == [u \in Units |-> NoFiles]
CgoCFLAGS     == [u \in Units |-> <<>>]
CgoCPPFLAGS   == [u \in Units |-> <<>>]
CgoCXXFLAGS   == [u \in Units |-> <<>>]
CgoLDFLAGS    == [u \in Units |-> <<>>]
CgoPkgConfig  == [u \in Units |-> <<>>]

FileName ==
    "x.go" :> <<"x", ".", "g", "o">> @@ "y.go" :> <<"y", ".", "g", "o">> @@
    "z.go" :> <<"z", ".", "g", "o">> @@ "r.go" :> <<"r", ".", "g", "o">> @@
    "x_test.go" :> <<"x", "_", "t", ".", "g", "o">> @@
    "rr.go" :> <<"r", "r", ".", "g", "o">>

SrcFiles == DOMAIN FileName
Owner ==
    "x.go" :> "e.x" @@ "x_test.go" :> "e.x" @@ "y.go" :> "e.y" @@
    "z.go" :> "e.z" @@ "r.go" :> "runtime" @@ "rr.go" :> "runtime/race"
\* Source files of the workspace; the toolchain's own tree is not edited.
WsFiles == {f \in SrcFiles : Owner[f] \in WsUnits}

\* File contents are byte strings.
Contents == {<<"a">>, <<"b">>}

\* runtime.Version(), runtime.GOOS, runtime.GOARCH of the running binary.
runtimeVersion == <<"g", "o", "1">>
runtimeGOOS    == <<"l", "x">>
runtimeGOARCH  == <<"a", "6">>

(***************************************************************************)
(* State.                                                                  *)
(***************************************************************************)
VARIABLES
    srcData,    \* content of every source file
    srcTime,    \* modification time of every source file
    clock,      \* the wall clock, time.Now()
    target,     \* install path of a package -> inode, 0 when no file is there
    store,      \* cache directory: entry name (a fingerprint) -> inode
    inode,      \* inode -> [data, mtime]; hard links share an inode
    cacheDir,   \* the cache directory exists
    pkgDir,     \* the directory holding the workspace's install paths exists
    sameFS,     \* install paths and cache directory are on one filesystem
    proc,       \* every invocation's position and local variables
    runs,       \* invocations started so far
    envn,       \* environment steps taken so far
    hist        \* what the last save printed and inserted, and what followed

vars == <<srcData, srcTime, clock, target, store, inode, cacheDir, pkgDir,
          sameFS, proc, runs, envn, hist>>

(***************************************************************************)
(* Package.load on an import graph without errors: Standard, Target,       *)
(* the imports and the sorted transitive dependency list.                  *)
(***************************************************************************)
race  == [u \in Units |-> FALSE]     \* no request carries the race option
local == [u \in Units |-> FALSE]     \* no request is a ./ or ../ path
baseImportPath == [u \in Units |-> u]

Standard(p) ==
    Goroot[p] /\ ImportPath[p] # <<>> /\ ~ContainsChar(ImportPath[p], ".")

\* The install path; "" when the package has none.
Target(p) ==
    IF local[p] THEN ""
    ELSE IF Standard(p) /\ baseImportPath[p] = "unsafe" THEN ""
    ELSE PkgObj[p]

usesCgo(p)  == Len(CgoFiles[p]) > 0
usesSwig(p) == Len(SwigFiles[p]) > 0 \/ Len(SwigCXXFiles[p]) > 0

raceExclude == {"runtime/race", "runtime/cgo", "cmd/cgo", "syscall", "errors"}
cgoExclude == {"runtime/cgo"}
cgoSyscallExclude == {"runtime/cgo", "runtime/race"}

\* The explicit imports followed by the implicit ones.
importPaths(p) ==
    Imports[p]
    \o (IF usesCgo(p) /\ (~Standard(p) \/ baseImportPath[p] \notin cgoExclude)
        THEN <<"runtime/cgo">> ELSE <<>>)
    \o (IF usesCgo(p) /\ (~Standard(p) \/ baseImportPath[p] \notin cgoSyscallExclude)
        THEN <<"syscall">> ELSE <<>>)
    \o (IF ~Standard(p) \/ baseImportPath[p] \notin {"runtime", "unsafe"}
        THEN <<"runtime">>
             \o (IF race[p] /\ (~Standard(p) \/ baseImportPath[p] \notin raceExclude)
                 THEN <<"runtime/race">> ELSE <<>>)
        ELSE <<>>)

Range(s) == {s[i] : i \in 1..Len(s)}

\* sort.Sort(packageList(...)): ascending ImportPath.
RECURSIVE sortPackageList(_)
sortPackageList(S) ==
    IF S = {} THEN <<>>
    ELSE LET m == CHOOSE m \in S :
                    \A o \in S \ {m} : StrLess(ImportPath[m], ImportPath[o])
         IN  <<m>> \o sortPackageList(S \ {m})

imports(p) == importPaths(p)

RECURSIVE depSet(_)
depSet(p) == UNION {{p1} \cup depSet(p1) : p1 \in Range(importPaths(p))}

deps(p) == sortPackageList(depSet(p))

\* No package of this graph has a load error.
NoError == "nil"
Error(p) == NoError

(***************************************************************************)
(* The file system as the tool sees it.                                    *)
(***************************************************************************)
NoFile == 0
exists_target(p) == Target(p) # "" /\ target[p] # NoFile
exists_entry(fp) == cacheDir /\ fp \in DOMAIN store

(***************************************************************************)
(* Package.Fingerprint.  A call threads the per-run memo (p.fingerprint of *)
(* every package); the value returned is the memo's entry for p after the  *)
(* call.  SHA-1 is treated as collision-free: the digest of a byte string  *)
(* is that byte string between brackets.                                   *)
(***************************************************************************)
Nil == <<"nil">>      \* p.fingerprint == nil
\* What a source file that cannot be opened holds, and the fingerprint of a
\* call that ended the process in log.Fatal (lines 1042-1048).
Missing == <<"missing">>
Fatal == <<"fatal">>
EmptyMemo == [u \in Units |-> Nil]

hexSum(h) == <<"[">> \o h \o <<"]">>

\* A loop over files that writes the names and leaves the bytes out.
RECURSIVE hashNames(_, _)
hashNames(disk, files) ==
    IF files = <<>> THEN <<>>
    ELSE FileName[Head(files)] \o hashNames(disk, Tail(files))

\* The loop over files: the name, then the bytes io.Copy reads from the
\* file as it is on disk.
RECURSIVE hashFiles(_, _)
hashFiles(disk, files) ==
    IF files = <<>> THEN <<>>
    ELSE FileName[Head(files)] \o disk[Head(files)]
             \o hashFiles(disk, Tail(files))

\* lines 1042-1045: os.Open fails for one of the files.
openFails(disk, files) == \E f \in Range(files) : disk[f] = Missing

hashedFiles(p) ==
    stringList(<<GoFiles[p], CgoFiles[p], CFiles[p], CXXFiles[p], MFiles[p],
                 HFiles[p], SFiles[p], SwigFiles[p], SwigCXXFiles[p],
                 SysoFiles[p]>>)

hashedFlags(p) ==
    stringList(<< <<runtimeVersion>>, <<runtimeGOOS>>, <<runtimeGOARCH>>,
                  <<ImportPath[p]>>, CgoCFLAGS[p], CgoCPPFLAGS[p],
                  CgoCXXFLAGS[p], CgoLDFLAGS[p], CgoPkgConfig[p]>>)

\* A loop over the dependencies that writes none of them.
skipEveryDep(p, dep) == TRUE

\* The dependencies the loop passes over: standard packages, unless p is
\* built for the race detector.
skipDep(p, dep) == ~race[p] /\ Standard(dep)

\* A test that takes no fingerprint for the empty one.
neverIndeterminate(fp) == FALSE

\* line 997: fp == ""
indeterminate(fp) == fp = <<>>

RECURSIVE Fingerprint(_, _, _), fingerprintDeps(_, _, _, _, _)
Fingerprint(disk, p, memo) ==
    IF memo[p] # Nil THEN memo
    ELSE LET r == fingerprintDeps(disk, p, deps(p), memo, <<>>)
         IN  IF r.fatal THEN [r.memo EXCEPT ![p] = Fatal]
             ELSE IF r.empty THEN [r.memo EXCEPT ![p] = <<>>]
             ELSE IF openFails(disk, hashedFiles(p))
             THEN [r.memo EXCEPT ![p] = Fatal]
             ELSE [r.memo EXCEPT ![p] =
                      hexSum(r.h \o WriteAll(hashedFlags(p))
                                 \o hashFiles(disk, hashedFiles(p)))]

fingerprintDeps(disk, p, ds, memo, h) ==
    IF ds = <<>>
    THEN [memo |-> memo, h |-> h, empty |-> FALSE, fatal |-> FALSE]
    ELSE LET dep == Head(ds)
         IN  IF skipDep(p, dep)
             THEN fingerprintDeps(disk, p, Tail(ds), memo, h)
             ELSE LET m1 == Fingerprint(disk, dep, memo)
                  IN  IF m1[dep] = Fatal
                      THEN [memo |-> m1, h |-> h, empty |-> FALSE,
                            fatal |-> TRUE]
                      ELSE IF indeterminate(m1[dep])
                      THEN [memo |-> m1, h |-> h, empty |-> TRUE,
                            fatal |-> FALSE]
                      ELSE fingerprintDeps(disk, p, Tail(ds), m1,
                                           h \o m1[dep])

\* The fingerprint a fresh run computes for p from the files on disk, and
\* from the current sources.
fpAt(disk, p) == Fingerprint(disk, p, EmptyMemo)[p]
FP(p) == fpAt(srcData, p)

(***************************************************************************)
(* computeStale and isStale.                                               *)
(***************************************************************************)
\* olderThan(file) for an install path: the stat fails or the file is newer.
olderThanTarget(p1, built) ==
    target[p1] = NoFile \/ inode[target[p1]].mtime > built
olderThanSrc(f, built) == srcData[f] = Missing \/ srcTime[f] > built

staleSrcs(p) ==
    stringList(<<GoFiles[p], CFiles[p], CXXFiles[p], MFiles[p], HFiles[p],
                 SFiles[p], CgoFiles[p], SysoFiles[p], SwigFiles[p],
                 SwigCXXFiles[p]>>)

isStale(p, topRoot, Stale) ==
    IF Standard(p) /\ baseImportPath[p] = "unsafe" THEN FALSE
    ELSE IF Error(p) # NoError THEN TRUE
    ELSE IF Len(GoFiles[p]) = 0 /\ Len(CgoFiles[p]) = 0
            /\ Len(TestGoFiles[p]) = 0 /\ Len(XTestGoFiles[p]) = 0
            /\ ~usesSwig(p) THEN FALSE
    ELSE IF Target(p) = "" \/ Stale[p] THEN TRUE
    ELSE IF target[p] = NoFile \/ inode[target[p]].mtime = 0 THEN TRUE
    ELSE LET built == inode[target[p]].mtime
         IN  IF \E p1 \in Range(deps(p)) :
                    Stale[p1] \/ (Target(p1) # "" /\ olderThanTarget(p1, built))
             THEN TRUE
             ELSE IF Root[p] # "" /\ Root[p] \notin topRoot THEN FALSE
             ELSE \E src \in Range(staleSrcs(p)) : olderThanSrc(src, built)

\* The depth-first post-order list of the packages reachable over imports.
RECURSIVE walk(_, _), walkList(_, _)
walk(p, st) ==
    IF p \in st.seen THEN st
    ELSE LET s1 == walkList(imports(p), [st EXCEPT !.seen = @ \cup {p}])
         IN  [s1 EXCEPT !.all = Append(@, p)]
walkList(list, st) ==
    IF list = <<>> THEN st ELSE walkList(Tail(list), walk(Head(list), st))

RECURSIVE staleLoop(_, _, _)
staleLoop(list, topRoot, Stale) ==
    IF list = <<>> THEN Stale
    ELSE staleLoop(Tail(list), topRoot,
                   [Stale EXCEPT ![Head(list)] = isStale(Head(list), topRoot, Stale)])

\* The Stale flag of every package after computeStale(pkgs).
computeStale(pkgs) ==
    LET topRoot == {Root[p] : p \in Range(pkgs)}
        all == walkList(pkgs, [seen |-> {}, all |-> <<>>]).all
    IN  staleLoop(all, topRoot, [u \in Units |-> FALSE])

\* loadAll(args): the roots and their dependencies, sorted by import path.
loadAll(args) ==
    sortPackageList(Range(args) \cup UNION {Range(deps(r)) : r \in Range(args)})

(***************************************************************************)
(* Inodes.  A path names an inode; an inode lives while a path or an open  *)
(* file refers to it.  New inodes take the smallest free number.           *)
(***************************************************************************)
EmptyStore == [x \in {} |-> NoFile]

refs(t, s, pr) ==
    ({t[u] : u \in DOMAIN t} \cup {s[f] : f \in DOMAIN s}
       \cup {pr[p].srcFile : p \in DOMAIN pr}
       \cup {pr[p].dstFile : p \in DOMAIN pr}) \ {NoFile}

gc(ino, t, s, pr) == [k \in (DOMAIN ino) \cap refs(t, s, pr) |-> ino[k]]

newIno(ino) ==
    CHOOSE k \in 1..(Cardinality(DOMAIN ino) + 1) :
        /\ k \notin DOMAIN ino
        /\ \A j \in 1..(k - 1) : j \in DOMAIN ino

\* A write of one byte at a 0-based offset; a gap reads as zero bytes.
RECURSIVE zeros(_)
zeros(n) == IF n = 0 THEN <<>> ELSE <<"0">> \o zeros(n - 1)
writeAt(data, off, b) ==
    IF off < Len(data) THEN [data EXCEPT ![off + 1] = b]
    ELSE data \o zeros(off - Len(data)) \o <<b>>

\* The directory of an install path exists.
targetDirExists(p) == IF p \in WsUnits THEN pkgDir ELSE TRUE

(***************************************************************************)
(* Invocations.  proc[p] holds one invocation's position and locals.       *)
(***************************************************************************)
Dash == <<"-">>
NoRec == [fp |-> Nil, tag |-> " ", data |-> <<>>]

Idle == [pc |-> "idle", cmd |-> "", args |-> <<>>, pkgs |-> <<>>,
         Stale |-> [u \in Units |-> FALSE], i |-> 0,
         fingerprint |-> EmptyMemo, now |-> 0, out |-> <<>>, fp |-> <<>>,
         srcFile |-> NoFile, dstFile |-> NoFile, off |-> 0]

Procs == DOMAIN proc
Stopped(r) == r.pc \in {"idle", "done", "fatal"}
Quiet == \A p \in Procs : Stopped(proc[p])

\* The requests an invocation may be given.
Requests == {<<"e.z">>, <<"e.y">>}

\* The process ends: os.Exit, log.Fatal or return from main close its files.
exit(r, how) == [r EXCEPT !.pc = how, !.srcFile = NoFile, !.dstFile = NoFile]

pkgOf(r) == r.pkgs[r.i]

\* save, lines 466-479: create the cache directory, load the packages.
main_save(p, args) ==
    /\ Stopped(proc[p]) /\ runs < MaxRuns
    /\ runs' = runs + 1
    /\ cacheDir' = TRUE
    /\ proc' = [proc EXCEPT ![p] =
                  [Idle EXCEPT !.pc = "save_check", !.cmd = "save",
                               !.args = args, !.pkgs = loadAll(args),
                               !.Stale = computeStale(args), !.i = 1]]
    /\ hist' = [saved |-> TRUE, src |-> srcData,
                rec |-> [u \in Units |-> NoRec],
                cleared |-> FALSE, wiped |-> FALSE]
    /\ UNCHANGED <<srcData, srcTime, clock, target, store, inode, pkgDir,
                   sameFS, envn>>

\* A "now" that is left at the zero time.
timeZero(c) == 0

\* line 517: now := time.Now()
timeNow(c) == c

\* restore, lines 501-517: leave when there is no cache directory, else load
\* the packages and take the time.
main_restore(p, args) ==
    /\ Stopped(proc[p]) /\ runs < MaxRuns
    /\ runs' = runs + 1
    /\ proc' = [proc EXCEPT ![p] =
                  IF ~cacheDir
                  THEN [Idle EXCEPT !.pc = "done", !.cmd = "restore"]
                  ELSE [Idle EXCEPT !.pc = "restore_get", !.cmd = "restore",
                                    !.args = args, !.pkgs = loadAll(args),
                                    !.Stale = computeStale(args), !.i = 1,
                                    !.now = timeNow(clock)]]
    /\ UNCHANGED <<srcData, srcTime, clock, target, store, inode, cacheDir,
                   pkgDir, sameFS, envn, hist>>

\* A removal that leaves the entries behind.
RemoveNothing(s) == s

\* os.RemoveAll: no entry is left.
RemoveAll(s) == EmptyStore

\* clear, lines 540-548: os.RemoveAll of the cache directory.
clear(p) ==
    /\ Stopped(proc[p]) /\ runs < MaxRuns
    /\ runs' = runs + 1
    /\ proc' = [proc EXCEPT ![p] = [Idle EXCEPT !.pc = "done", !.cmd = "clear"]]
    /\ store' = RemoveAll(store)
    /\ cacheDir' = FALSE
    /\ inode' = gc(inode, target, store', proc')
    /\ hist' = [hist EXCEPT !.cleared = TRUE]
    /\ UNCHANGED <<srcData, srcTime, clock, target, pkgDir, sameFS, envn>>

\* save, lines 481-487: the loop head, the skip of standard packages and the
\* staleness test.
save_check(p) ==
    LET r == proc[p] IN
    /\ r.pc = "save_check"
    /\ proc' = [proc EXCEPT ![p] =
          IF r.i > Len(r.pkgs) THEN exit(r, "done")
          ELSE IF Standard(pkgOf(r)) /\ ~race[pkgOf(r)]
               THEN [r EXCEPT !.i = @ + 1]
          ELSE IF r.Stale[pkgOf(r)] \/ ~exists_target(pkgOf(r))
               THEN [r EXCEPT !.i = @ + 1,
                       !.out = Append(@, [fp |-> Dash, tag |-> " ",
                                          pkg |-> pkgOf(r)])]
          ELSE [r EXCEPT !.pc = "save_put"]]
    /\ UNCHANGED <<srcData, srcTime, clock, target, store, inode, cacheDir,
                   pkgDir, sameFS, runs, envn, hist>>

\* A save that does not look for the entry before the put.
tagUnchecked(fp) == "*"

\* lines 489-492: the tag is " " when the entry exists, else "*".
tagFor(fp) == IF exists_entry(fp) THEN " " ELSE "*"

\* save, lines 488-493: fingerprint, then the existence test of the entry.
save_put(p) ==
    LET r == proc[p]
        memo == Fingerprint(srcData, pkgOf(r), r.fingerprint)
        fp == memo[pkgOf(r)]
    IN
    /\ r.pc = "save_put"
    /\ proc' = [proc EXCEPT ![p] =
          IF fp = Fatal THEN exit([r EXCEPT !.fingerprint = memo], "fatal")
          ELSE IF tagFor(fp) = " "
          THEN [r EXCEPT !.fingerprint = memo, !.i = @ + 1,
                         !.pc = "save_check",
                         !.out = Append(@, [fp |-> fp, tag |-> " ",
                                            pkg |-> pkgOf(r)])]
          ELSE [r EXCEPT !.fingerprint = memo, !.fp = fp,
                         !.pc = "loc_exists"]]
    /\ hist' = IF fp # Fatal /\ tagFor(fp) = " "
               THEN [hist EXCEPT !.rec[pkgOf(r)] =
                        [fp |-> fp, tag |-> " ", data |-> <<>>]]
               ELSE hist
    /\ UNCHANGED <<srcData, srcTime, clock, target, store, inode, cacheDir,
                   pkgDir, sameFS, runs, envn>>

(***************************************************************************)
(* linkOrCopy(src, dst).  save calls it with the install path as src and   *)
(* the cache entry as dst; restore with the two exchanged.                 *)
(***************************************************************************)
entryIno(fp) == IF exists_entry(fp) THEN store[fp] ELSE NoFile
srcIno(r) == IF r.cmd = "save" THEN target[pkgOf(r)] ELSE entryIno(r.fp)
dstIno(r) == IF r.cmd = "save" THEN entryIno(r.fp) ELSE target[pkgOf(r)]
dstDirExists(r) ==
    IF r.cmd = "save" THEN cacheDir ELSE targetDirExists(pkgOf(r))

\* The path dst now names inode k.
setDst(r, k) ==
    IF r.cmd = "save"
    THEN store' = (r.fp :> k) @@ store /\ target' = target
    ELSE target' = [target EXCEPT ![pkgOf(r)] = k] /\ store' = store

\* linkOrCopy returns to its caller: save logs the line with the "*" tag
\* (line 496) and goes on with the next package, restore goes on to Chtimes;
\* an error is fatal in both.
locReturn(p, ok) ==
    LET r == proc[p]
        closed == [r EXCEPT !.srcFile = NoFile, !.dstFile = NoFile, !.off = 0]
        from == IF r.srcFile # NoFile THEN r.srcFile ELSE srcIno(r)
    IN
    /\ proc' = [proc EXCEPT ![p] =
          IF ~ok THEN exit(r, "fatal")
          ELSE IF r.cmd = "save"
               THEN [closed EXCEPT !.pc = "save_check", !.i = @ + 1,
                        !.out = Append(@, [fp |-> r.fp, tag |-> "*",
                                           pkg |-> pkgOf(r)])]
               ELSE [closed EXCEPT !.pc = "restore_chtimes"]]
    /\ hist' = IF ok /\ r.cmd = "save"
               THEN [hist EXCEPT !.rec[pkgOf(r)] =
                        [fp |-> r.fp, tag |-> "*",
                         data |-> IF from = NoFile THEN <<>> ELSE inode[from].data]]
               ELSE hist

\* line 435: if exists(dst) { return nil }
loc_exists(p) ==
    LET r == proc[p] IN
    /\ r.pc = "loc_exists"
    /\ IF dstIno(r) # NoFile
       THEN locReturn(p, TRUE)
       ELSE proc' = [proc EXCEPT ![p].pc = "loc_link"] /\ hist' = hist
    /\ UNCHANGED <<srcData, srcTime, clock, target, store, inode, cacheDir,
                   pkgDir, sameFS, runs, envn>>

\* line 438: os.Link.  It fails when src is missing, when dst exists
\* (os.IsExist, taken as success), when the directory of dst is missing and
\* across filesystems; every failure but the second goes on to the copy.
loc_link(p) ==
    LET r == proc[p] IN
    /\ r.pc = "loc_link"
    /\ IF srcIno(r) # NoFile /\ dstIno(r) # NoFile
       THEN locReturn(p, TRUE) /\ UNCHANGED <<target, store>>
       ELSE IF srcIno(r) # NoFile /\ dstDirExists(r) /\ sameFS
       THEN setDst(r, srcIno(r)) /\ locReturn(p, TRUE)
       ELSE /\ proc' = [proc EXCEPT ![p].pc = "loc_open"]
            /\ UNCHANGED <<target, store, hist>>
    /\ UNCHANGED <<srcData, srcTime, clock, inode, cacheDir, pkgDir, sameFS,
                   runs, envn>>

\* lines 442-446: os.Open(src)
loc_open(p) ==
    LET r == proc[p] IN
    /\ r.pc = "loc_open"
    /\ IF srcIno(r) = NoFile
       THEN locReturn(p, FALSE)
       ELSE /\ proc' = [proc EXCEPT ![p].pc = "loc_stat",
                                    ![p].srcFile = srcIno(r)]
            /\ hist' = hist
    /\ UNCHANGED <<srcData, srcTime, clock, target, store, inode, cacheDir,
                   pkgDir, sameFS, runs, envn>>

\* lines 448-451: os.Stat(src)
loc_stat(p) ==
    LET r == proc[p] IN
    /\ r.pc = "loc_stat"
    /\ IF srcIno(r) = NoFile
       THEN locReturn(p, FALSE)
       ELSE proc' = [proc EXCEPT ![p].pc = "loc_create"] /\ hist' = hist
    /\ inode' = gc(inode, target, store, proc')
    /\ UNCHANGED <<srcData, srcTime, clock, target, store, cacheDir, pkgDir,
                   sameFS, runs, envn>>

\* A create that refuses a destination that is already there (O_EXCL).
createExclusive(r) == ~dstDirExists(r) \/ dstIno(r) # NoFile

\* os.Create fails when the directory of dst is missing.
createFails(r) == ~dstDirExists(r)

\* lines 453-461: os.Create(dst) opens dst with O_CREATE|O_TRUNC, so a file
\* already there is emptied; then Chmod to the permission bits of src.
loc_create(p) ==
    LET r == proc[p]
        k == IF dstIno(r) # NoFile THEN dstIno(r) ELSE newIno(inode)
    IN
    /\ r.pc = "loc_create"
    /\ IF createFails(r)
       THEN /\ locReturn(p, FALSE)
            /\ UNCHANGED <<target, store>>
            /\ inode' = gc(inode, target, store, proc')
       ELSE /\ setDst(r, k)
            /\ proc' = [proc EXCEPT ![p].pc = "loc_copy", ![p].dstFile = k,
                                    ![p].off = 0]
            /\ inode' = (k :> [data |-> <<>>, mtime |-> clock]) @@ inode
            /\ hist' = hist
    /\ UNCHANGED <<srcData, srcTime, clock, cacheDir, pkgDir, sameFS, runs,
                   envn>>

\* A copy that stops one byte before the end of the source.
copyEndsEarly(off, sdata) == off + 1 >= Len(sdata)

\* The read at offset off returns io.EOF.
copyAtEnd(off, sdata) == off >= Len(sdata)

\* line 462: io.Copy(dstFile, srcFile), one buffer at a time, until the
\* source is at its end.
loc_copy(p) ==
    LET r == proc[p]
        sdata == inode[r.srcFile].data
    IN
    /\ r.pc = "loc_copy"
    /\ IF ~copyAtEnd(r.off, sdata)
       THEN /\ inode' = [inode EXCEPT ![r.dstFile] =
                           [data |-> writeAt(@.data, r.off, sdata[r.off + 1]),
                            mtime |-> clock]]
            /\ proc' = [proc EXCEPT ![p].off = @ + 1]
            /\ hist' = hist
       ELSE /\ locReturn(p, TRUE)
            /\ inode' = gc(inode, target, store, proc')
    /\ UNCHANGED <<srcData, srcTime, clock, target, store, cacheDir, pkgDir,
                   sameFS, runs, envn>>

(***************************************************************************)
(* restore, the loop of lines 518-537.                                     *)
(***************************************************************************)
\* lines 518-527: the loop head, the skip of standard packages, the
\* fingerprint and the lookup of the entry.
restore_get(p) ==
    LET r == proc[p]
        memo == Fingerprint(srcData, pkgOf(r), r.fingerprint)
        fp == memo[pkgOf(r)]
    IN
    /\ r.pc = "restore_get"
    /\ proc' = [proc EXCEPT ![p] =
          IF r.i > Len(r.pkgs) THEN exit(r, "done")
          ELSE IF Standard(pkgOf(r)) /\ ~race[pkgOf(r)]
               THEN [r EXCEPT !.i = @ + 1]
          ELSE IF fp = Fatal
               THEN exit([r EXCEPT !.fingerprint = memo], "fatal")
          ELSE IF ~exists_entry(fp)
               THEN [r EXCEPT !.fingerprint = memo, !.i = @ + 1,
                       !.out = Append(@, [fp |-> Dash, tag |-> " ",
                                          pkg |-> pkgOf(r)])]
          ELSE [r EXCEPT !.fingerprint = memo, !.fp = fp,
                         !.pc = "restore_remove",
                         !.out = Append(@, [fp |-> fp, tag |-> " ",
                                            pkg |-> pkgOf(r)])]]
    /\ UNCHANGED <<srcData, srcTime, clock, target, store, inode, cacheDir,
                   pkgDir, sameFS, runs, envn, hist>>

\* line 528: _ = os.Remove(pkg.Target)
restore_remove(p) ==
    LET r == proc[p] IN
    /\ r.pc = "restore_remove"
    /\ target' = [target EXCEPT ![pkgOf(r)] = NoFile]
    /\ proc' = [proc EXCEPT ![p].pc = "restore_mkdir"]
    /\ inode' = gc(inode, target', store, proc')
    /\ UNCHANGED <<srcData, srcTime, clock, store, cacheDir, pkgDir, sameFS,
                   runs, envn, hist>>

\* line 529: _ = os.MkdirAll(filepath.Dir(pkg.Target), 0755)
restore_mkdir(p) ==
    LET r == proc[p] IN
    /\ r.pc = "restore_mkdir"
    /\ pkgDir' = IF pkgOf(r) \in WsUnits THEN TRUE ELSE pkgDir
    /\ proc' = [proc EXCEPT ![p].pc = "loc_exists"]
    /\ UNCHANGED <<srcData, srcTime, clock, target, store, inode, cacheDir,
                   sameFS, runs, envn, hist>>

\* A Chtimes that leaves the times as they are.
ChtimesSkipped(ino, k, t) == ino

\* os.Chtimes: the modification time of inode k becomes t.
Chtimes(ino, k, t) == [ino EXCEPT ![k].mtime = t]

\* lines 533-535: os.Chtimes(pkg.Target, now, now)
restore_chtimes(p) ==
    LET r == proc[p] IN
    /\ r.pc = "restore_chtimes"
    /\ IF target[pkgOf(r)] = NoFile
       THEN proc' = [proc EXCEPT ![p] = exit(r, "fatal")] /\ inode' = inode
       ELSE /\ inode' = Chtimes(inode, target[pkgOf(r)], r.now)
            /\ proc' = [proc EXCEPT ![p].pc = "restore_get", ![p].i = @ + 1]
    /\ UNCHANGED <<srcData, srcTime, clock, target, store, cacheDir, pkgDir,
                   sameFS, runs, envn, hist>>

(***************************************************************************)
(* The world around the tool: the developer edits sources, the go tool     *)
(* installs packages, a CI job starts from an empty pkg directory, time    *)
(* passes.  These steps happen between invocations.                        *)
(***************************************************************************)
\* The bytes "go install" writes for a package: they depend on its source.
compileFrom(disk, u) ==
    <<ImportPath[u][Len(ImportPath[u])]>> \o disk[GoFiles[u][1]]
compile(u) == compileFrom(srcData, u)

exited == [p \in Procs |-> Idle]

Edit(f, c) ==
    /\ Quiet /\ envn < MaxEnv
    /\ c # srcData[f]
    /\ srcData' = [srcData EXCEPT ![f] = c]
    /\ srcTime' = [srcTime EXCEPT ![f] = clock]
    /\ envn' = envn + 1
    /\ proc' = exited
    /\ UNCHANGED <<clock, target, store, inode, cacheDir, pkgDir, sameFS,
                   runs, hist>>

Build(u) ==
    /\ Quiet /\ envn < MaxEnv
    /\ LET k == newIno(inode) IN
       /\ target' = [target EXCEPT ![u] = k]
       /\ proc' = exited
       /\ inode' = gc((k :> [data |-> compile(u), mtime |-> clock]) @@ inode,
                      target', store, proc')
    /\ pkgDir' = TRUE
    /\ envn' = envn + 1
    /\ UNCHANGED <<srcData, srcTime, clock, store, cacheDir, sameFS, runs,
                   hist>>

RemovePkgDir ==
    /\ Quiet /\ envn < MaxEnv
    /\ pkgDir
    /\ target' = [u \in Units |-> IF u \in WsUnits THEN NoFile ELSE target[u]]
    /\ pkgDir' = FALSE
    /\ proc' = exited
    /\ inode' = gc(inode, target', store, proc')
    /\ envn' = envn + 1
    /\ hist' = [hist EXCEPT !.wiped = TRUE]
    /\ UNCHANGED <<srcData, srcTime, clock, store, cacheDir, sameFS, runs>>

Tick ==
    /\ Quiet /\ envn < MaxEnv
    /\ clock' = clock + 1
    /\ envn' = envn + 1
    /\ proc' = exited
    /\ UNCHANGED <<srcData, srcTime, target, store, inode, cacheDir, pkgDir,
                   sameFS, runs, hist>>

(***************************************************************************)
(* One invocation at a time.                                               *)
(***************************************************************************)
\* The sources have been written and the packages installed at time 1, the
\* time of the start; 0 is the zero time.  The cache directory may or may
\* not exist, and may or may not be on the file system of the packages.
InitFS ==
    /\ srcTime = [f \in SrcFiles |-> 1]
    /\ clock = 1
    /\ target = ("runtime" :> 1 @@ "e.x" :> 2 @@ "e.y" :> 3 @@ "e.z" :> 4)
    /\ inode = [k \in 1..4 |->
                  [data |-> compile(CHOOSE u \in Units : target[u] = k),
                   mtime |-> 1]]
    /\ store = EmptyStore
    /\ cacheDir \in BOOLEAN
    /\ pkgDir = TRUE
    /\ sameFS \in BOOLEAN
    /\ runs = 0 /\ envn = 0
    /\ hist = [saved |-> FALSE, src |-> srcData,
               rec |-> [u \in Units |-> NoRec],
               cleared |-> FALSE, wiped |-> FALSE]

Init ==
    /\ srcData = [f \in SrcFiles |-> <<"a">>]
    /\ InitFS
    /\ proc = [p \in {1} |-> Idle]

Step(p) ==
    \/ save_check(p) \/ save_put(p)
    \/ loc_exists(p) \/ loc_link(p) \/ loc_open(p) \/ loc_stat(p)
    \/ loc_create(p) \/ loc_copy(p)
    \/ restore_get(p) \/ restore_remove(p) \/ restore_mkdir(p)
    \/ restore_chtimes(p)

Next ==
    \/ \E p \in Procs, args \in Requests : main_save(p, args)
    \/ \E p \in Procs, args \in Requests : main_restore(p, args)
    \/ \E p \in Procs : clear(p)
    \/ \E p \in Procs : Step(p)
    \/ \E f \in WsFiles, c \in Contents : Edit(f, c)
    \/ \E u \in WsUnits : Build(u)
    \/ RemovePkgDir
    \/ Tick

Spec == Init /\ [][Next]_vars

(***************************************************************************)
(* Properties of one invocation at a time (Spec).                          *)
(***************************************************************************)
\* The line an invocation printed for package u.
printed(r) == {r.out[k].pkg : k \in 1..Len(r.out)}
lineFor(r, u) == r.out[CHOOSE k \in 1..Len(r.out) : r.out[k].pkg = u]
finished(r, cmd) == r.cmd = cmd /\ r.pc = "done"

\* Packages that save and restore do not skip.
cached(u) == ~(Standard(u) /\ ~race[u])

\* C5: when restore has finished, every package of the request whose
\* fingerprint names an entry of the store has, at its install path, a file
\* with the bytes of that entry and the modification time the invocation
\* took as "now".
C5_RestoreInstallsEntry ==
    \A p \in Procs :
        finished(proc[p], "restore") =>
            \A u \in Range(proc[p].pkgs) :
                exists_entry(FP(u)) =>
                    /\ target[u] # NoFile
                    /\ inode[target[u]].data = inode[store[FP(u)]].data
                    /\ inode[target[u]].mtime = proc[p].now

\* A restore that replaced an older artifact: the install path carries the
\* entry's bytes and a time later than any build.
C5_Witness ==
    \E p \in Procs :
        /\ finished(proc[p], "restore")
        /\ proc[p].now > 1
        /\ \E u \in Range(proc[p].pkgs) :
              /\ exists_entry(FP(u))
              /\ target[u] # NoFile
              /\ inode[target[u]].data = inode[store[FP(u)]].data
              /\ inode[target[u]].mtime = proc[p].now

\* C6: round trip.  If the last save inserted an entry for a package, no
\* source has changed and the store was not cleared since, then a finished
\* restore printed the fingerprint that save printed for it and its install
\* path holds the bytes of the artifact that was saved.
C6_RoundTrip ==
    \A p \in Procs :
        (finished(proc[p], "restore") /\ hist.src = srcData /\ ~hist.cleared) =>
            \A u \in Range(proc[p].pkgs) :
                hist.rec[u].tag = "*" =>
                    /\ u \in printed(proc[p])
                    /\ lineFor(proc[p], u).fp = hist.rec[u].fp
                    /\ target[u] # NoFile
                    /\ inode[target[u]].data = hist.rec[u].data

\* save inserted e.x, e.y and e.z, the install directory was removed, and
\* restore brought the three back.
C6_Witness ==
    \E p \in Procs :
        /\ finished(proc[p], "restore") /\ hist.src = srcData
        /\ ~hist.cleared /\ hist.wiped
        /\ \A u \in WsUnits :
              /\ hist.rec[u].tag = "*"
              /\ u \in printed(proc[p])
              /\ lineFor(proc[p], u).fp = hist.rec[u].fp
              /\ target[u] # NoFile
              /\ inode[target[u]].data = hist.rec[u].data

\* The packages a finished restore brought back from the store.
restoredBy(r) == {u \in printed(r) : lineFor(r, u).fp # Dash}

\* C7: after a restore that brought back a package and all of its cached
\* dependencies, computeStale for any request that reaches the package
\* reports it not stale.
C7_RestoredIsFresh ==
    \A p \in Procs :
        finished(proc[p], "restore") =>
            \A u \in restoredBy(proc[p]) :
                ({d \in Range(deps(u)) : cached(d)} \subseteq restoredBy(proc[p])) =>
                    \A args \in Requests :
                        u \in Range(loadAll(args)) => ~computeStale(args)[u]

\* e.y was restored together with its dependency e.x, over sources that are
\* as old as the restore, and is evaluated fresh.
C7_Witness ==
    \E p \in Procs :
        /\ finished(proc[p], "restore")
        /\ {"e.x", "e.y"} \subseteq restoredBy(proc[p])
        /\ ~computeStale(proc[p].args)["e.y"]

\* Packages whose sources differ from what they were at the last save.
dependents(x) == {u \in Units : x \in depSet(u)}
changedFiles == {f \in SrcFiles : srcData[f] # hist.src[f]}
changedUnits == {Owner[f] : f \in changedFiles}
hashedChangedUnits ==
    {Owner[f] : f \in {g \in changedFiles : g \in Range(hashedFiles(Owner[g]))}}

\* C8 as stated: after a save, when a source file of X differs from what it
\* was at the save, a finished restore has found no entry for X and for
\* every package depending on X, and has printed the placeholder for them.
C8_AnyEditMisses ==
    \A p \in Procs :
        (finished(proc[p], "restore") /\ hist.saved) =>
            \A x \in changedUnits :
                \A u \in ({x} \cup dependents(x)) \cap Range(proc[p].pkgs) :
                    /\ ~exists_entry(FP(u))
                    /\ lineFor(proc[p], u).fp = Dash

\* C8 as amended, the state part: when a file that Fingerprint reads differs
\* from what it was at the save, restore computes for the package and for
\* every package depending on it a fingerprint other than the one save
\* printed, and prints the placeholder unless the store holds an entry for
\* the new fingerprint.
C8_State ==
    \A p \in Procs :
        (finished(proc[p], "restore") /\ hist.saved) =>
            \A x \in hashedChangedUnits :
                \A u \in ({x} \cup dependents(x)) \cap Range(proc[p].pkgs) :
                    /\ hist.rec[u].fp # Nil =>
                          proc[p].fingerprint[u] # hist.rec[u].fp
                    /\ ~exists_entry(FP(u)) => lineFor(proc[p], u).fp = Dash

\* The step of restore that prints the placeholder.
missStep(p) ==
    /\ proc[p].pc = "restore_get"
    /\ Len(proc'[p].out) = Len(proc[p].out) + 1
    /\ proc'[p].out[Len(proc'[p].out)].fp = Dash

\* C8 as amended: the state part, and a miss leaves install paths and store
\* as they were.
C8_HashedEditMisses ==
    /\ []C8_State
    /\ [][\A p \in Procs :
             missStep(p) =>
                UNCHANGED <<target, store, inode, cacheDir, pkgDir>>]_vars

\* x.go was edited after a save that had inserted e.x, e.y and e.z, and
\* restore printed the placeholder for the three.
C8_Witness ==
    \E p \in Procs :
        /\ finished(proc[p], "restore") /\ hist.saved
        /\ "e.x" \in hashedChangedUnits
        /\ \A u \in WsUnits :
              /\ hist.rec[u].tag = "*"
              /\ u \in printed(proc[p])
              /\ lineFor(proc[p], u).fp = Dash
              /\ proc[p].fingerprint[u] # hist.rec[u].fp

\* C9: clear ends without error, and after it the cache directory and every
\* entry are gone, whether the directory was missing, empty or populated.
C9_ClearRemovesAll ==
    \A p \in Procs :
        proc[p].cmd = "clear" =>
            /\ proc[p].pc = "done"
            /\ ~cacheDir
            /\ DOMAIN store = {}
            /\ \A u \in Units : ~exists_entry(FP(u))

\* clear has run on a directory into which the last save had inserted.
C9_Witness ==
    \E p \in Procs :
        /\ finished(proc[p], "clear")
        /\ \E u \in Units : hist.rec[u].tag = "*"
        /\ ~cacheDir /\ DOMAIN store = {}

\* C4: a put of a fingerprint whose entry is present changes neither the
\* set of entries nor any entry and prints the line without the "*"; and
\* every fingerprint a finished save printed names an entry.
C4_PutIdempotent ==
    /\ [][\A p \in Procs :
             LET r == proc[p]
                 fp == Fingerprint(srcData, pkgOf(r), r.fingerprint)[pkgOf(r)]
             IN  (r.pc = "save_put" /\ exists_entry(fp) /\ proc'[p] # r) =>
                    /\ store' = store
                    /\ cacheDir' = cacheDir
                    /\ \A e \in DOMAIN store : inode'[store[e]] = inode[store[e]]
                    /\ proc'[p].out =
                          Append(r.out, [fp |-> fp, tag |-> " ", pkg |-> pkgOf(r)])]_vars
    /\ [](\A p \in Procs :
             finished(proc[p], "save") =>
                \A k \in 1..Len(proc[p].out) :
                    proc[p].out[k].fp # Dash => exists_entry(proc[p].out[k].fp))

\* A second save of unchanged packages found the entry and printed the
\* fingerprint without the "*".
C4_Witness ==
    \E p \in Procs :
        /\ finished(proc[p], "save")
        /\ \E k \in 1..Len(proc[p].out) :
              /\ proc[p].out[k].fp # Dash
              /\ proc[p].out[k].tag = " "
              /\ exists_entry(proc[p].out[k].fp)

(***************************************************************************)
(* Invocations running at the same time on one cache directory.  The       *)
(* sources and the clock stand still meanwhile.                            *)
(***************************************************************************)
InitConc ==
    /\ srcData = [f \in SrcFiles |-> <<"a">>]
    /\ InitFS
    /\ proc = [p \in {1, 2} |-> Idle]

\* Only save invocations.
NextSave ==
    \/ \E p \in Procs, args \in Requests : main_save(p, args)
    \/ \E p \in Procs : save_check(p)
    \/ \E p \in Procs : save_put(p)
    \/ \E p \in Procs : loc_exists(p)
    \/ \E p \in Procs : loc_link(p)
    \/ \E p \in Procs : loc_open(p)
    \/ \E p \in Procs : loc_stat(p)
    \/ \E p \in Procs : loc_create(p)
    \/ \E p \in Procs : loc_copy(p)

SpecSave == InitConc /\ [][NextSave]_vars

\* save, restore and clear in any mix.
NextConc ==
    \/ \E p \in Procs, args \in Requests : main_save(p, args)
    \/ \E p \in Procs, args \in Requests : main_restore(p, args)
    \/ \E p \in Procs : clear(p)
    \/ \E p \in Procs : Step(p)

SpecConc == InitConc /\ [][NextConc]_vars

(***************************************************************************)
(* Properties of invocations that share the cache directory.               *)
(***************************************************************************)
\* C1: with save invocations racing on the same fingerprints, no save ends
\* in a fatal error; every fingerprint a save printed, with or without the
\* "*", names an entry; and a finished save printed the fingerprint of
\* every package it does not skip.
C1_ConcurrentSavesSucceed ==
    \A p \in Procs :
        proc[p].cmd = "save" =>
            /\ proc[p].pc # "fatal"
            /\ \A k \in 1..Len(proc[p].out) :
                  proc[p].out[k].fp # Dash =>
                      /\ proc[p].out[k].tag \in {"*", " "}
                      /\ exists_entry(proc[p].out[k].fp)
            /\ proc[p].pc = "done" =>
                  \A u \in Range(proc[p].pkgs) :
                      cached(u) =>
                          /\ u \in printed(proc[p])
                          /\ lineFor(proc[p], u).fp = FP(u)

\* Two saves have finished and both printed the "*" for the same package:
\* each passed the existence test before the other had inserted.
C1_Witness ==
    /\ \A p \in Procs : finished(proc[p], "save")
    /\ \E u \in WsUnits :
          \A p \in Procs :
              /\ u \in printed(proc[p])
              /\ lineFor(proc[p], u).tag = "*"
              /\ lineFor(proc[p], u).fp = FP(u)

\* C2: the entry a restore has just found present holds the complete bytes
\* of the package's artifact.
C2_FoundEntryComplete ==
    \A p \in Procs :
        (/\ proc[p].cmd = "restore"
         /\ proc[p].pc = "restore_remove"
         /\ exists_entry(proc[p].fp)) =>
            inode[store[proc[p].fp]].data = compile(pkgOf(proc[p]))

\* C3: an entry that no invocation holds open for writing keeps its name
\* and its bytes over every step but the removal of the cache directory.
C3_EntriesImmutable ==
    [][\A fp \in DOMAIN store :
          (/\ cacheDir /\ cacheDir'
           /\ \A q \in Procs : proc[q].dstFile # store[fp]) =>
              /\ fp \in DOMAIN store'
              /\ inode'[store'[fp]].data = inode[store[fp]].data]_vars

(***************************************************************************)
(* Package.Fingerprint on its own, over every content of the source files. *)
(***************************************************************************)
InitFP ==
    /\ srcData \in [SrcFiles -> Contents]
    /\ InitFS
    /\ proc = [p \in {1} |-> Idle]

\* fp := pkg.Fingerprint() (lines 488 and 522), within one run's memo.
CallFingerprint(p, u) ==
    /\ proc[p].pc = "idle"
    /\ proc[p].fingerprint[u] = Nil
    /\ proc' = [proc EXCEPT ![p].fingerprint = Fingerprint(srcData, u, @)]
    /\ UNCHANGED <<srcData, srcTime, clock, target, store, inode, cacheDir,
                   pkgDir, sameFS, runs, envn, hist>>

NextFP ==
    \/ \E f \in WsFiles, c \in Contents : Edit(f, c)
    \/ \E p \in Procs, u \in Units : CallFingerprint(p, u)

SpecFP == InitFP /\ [][NextFP]_vars

\* C10 as stated: when the content of any source file of a package outside
\* the standard library is other than it was at the start, the fingerprint a
\* run computes for the package, and for every package that depends on it,
\* is other than the fingerprint of the sources at the start.
C10_AnyFileSensitive ==
    \A p \in Procs :
        \A x \in changedUnits :
            \A u \in {x} \cup dependents(x) :
                proc[p].fingerprint[u] # Nil =>
                    proc[p].fingerprint[u] # fpAt(hist.src, u)

\* C10 as amended: the same for a source file that Fingerprint reads (the
\* files of the package that take part in its build, not its test files);
\* and what a run computes is the fingerprint of the current sources.
C10_HashedFileSensitive ==
    \A p \in Procs :
        /\ \A x \in hashedChangedUnits :
              \A u \in {x} \cup dependents(x) :
                  proc[p].fingerprint[u] # Nil =>
                      proc[p].fingerprint[u] # fpAt(hist.src, u)
        /\ \A u \in Units :
              proc[p].fingerprint[u] # Nil => proc[p].fingerprint[u] = FP(u)

\* x.go has been changed and a run has then computed fingerprints for e.x
\* and for e.z, which depends on it, that differ from those of the sources
\* at the start.
C10_Witness ==
    /\ "e.x" \in hashedChangedUnits
    /\ \E p \in Procs :
          \A u \in {"e.x", "e.z"} :
              /\ proc[p].fingerprint[u] # Nil
              /\ proc[p].fingerprint[u] # fpAt(hist.src, u)

(***************************************************************************)
(* Loading the import graph: loadPackage, loadImport, reusePackage and     *)
(* Package.load as a step machine over the package cache.  Import paths    *)
(* and cache keys are byte strings.  The source tree is one of a few       *)
(* variants: the sound tree of the packages above, and trees with an       *)
(* import cycle, a package that cannot be read, a local import in an       *)
(* ordinary package, and C sources in a package without cgo.               *)
(***************************************************************************)
Trees == {"ok", "cycle", "badpkg", "localimp", "cfiles"}

pathX == ImportPath["e.x"]
pathY == ImportPath["e.y"]
pathZ == ImportPath["e.z"]
pathRuntime == ImportPath["runtime"]
pathRuntimeRace == <<"r", "u", "n", "t", "i", "m", "e", "/", "r", "a", "c", "e">>
pathRuntimeCgo == <<"r", "u", "n", "t", "i", "m", "e", "/", "c", "g", "o">>
pathCmdCgo == <<"c", "m", "d", "/", "c", "g", "o">>
pathSyscall == <<"s", "y", "s", "c", "a", "l", "l">>
pathErrors == <<"e", "r", "r", "o", "r", "s">>
pathUnsafe == <<"u", "n", "s", "a", "f", "e">>
pathLocal == <<".", "/", "s">>
optRace == <<"r", "a", "c", "e">>
cwd == <<"/", "w">>

\* strings.IndexByte(s, c), 0 standing for -1.
IndexByte(s, c) ==
    IF ContainsChar(s, c)
    THEN CHOOSE i \in 1..Len(s) : s[i] = c /\ \A j \in 1..(i - 1) : s[j] # c
    ELSE 0

\* strings.Split(s, ","): the pieces between the commas, at least one.
RECURSIVE Split(_)
Split(s) ==
    LET i == IndexByte(s, ",")
    IN  IF i = 0 THEN <<s>>
        ELSE <<SubSeq(s, 1, i - 1)>> \o Split(SubSeq(s, i + 1, Len(s)))

packageBaseImportPath(s) ==
    LET i == IndexByte(s, ":") IN IF i = 0 THEN s ELSE SubSeq(s, 1, i - 1)

\* The nil slice is the empty list here.
packageOptions(s) ==
    LET i == IndexByte(s, ":")
    IN  IF i = 0 THEN <<>> ELSE Split(SubSeq(s, i + 1, Len(s)))

contains(tags, tag) == \E i \in 1..Len(tags) : tags[i] = tag

\* build.IsLocalImport: ".", ".." or a path that starts with "./" or "../".
IsLocalImport(path) ==
    \/ path = <<".">> \/ path = <<".", ".">>
    \/ (Len(path) >= 2 /\ SubSeq(path, 1, 2) = <<".", "/">>)
    \/ (Len(path) >= 3 /\ SubSeq(path, 1, 3) = <<".", ".", "/">>)

\* dirToImportPath(filepath.Join(srcDir, path)) for a path "./name".
dirToImportPath(srcDir, path) ==
    <<"_">> \o srcDir \o SubSeq(path, 2, Len(path))

RECURSIVE Reverse(_)
Reverse(s) == IF s = <<>> THEN <<>> ELSE Reverse(Tail(s)) \o <<Head(s)>>

\* What build.Context.Import returns for a path: the package's metadata and
\* whether it failed.  rev tells that the import declarations of the
\* package's files stand in the opposite order.
unitAt(path) ==
    IF \E u \in Units : ImportPath[u] = path
    THEN CHOOSE u \in Units : ImportPath[u] = path
    ELSE ""

declaredImports(tree, path) ==
    IF path = pathY
    THEN (IF tree = "cycle" THEN <<pathX, pathZ>> ELSE <<pathX>>)
    ELSE IF path = pathZ
    THEN (IF tree = "localimp" THEN <<pathY, pathLocal>> ELSE <<pathY, pathX>>)
    ELSE <<>>

Import(tree, rev, path) ==
    LET u == unitAt(path)
        known == u # "" \/ path = pathRuntimeRace \/ path = pathLocal
        imps == declaredImports(tree, path)
    IN  [err |-> ~known \/ (tree = "badpkg" /\ path = pathY),
         Dir |-> IF path = pathLocal THEN <<"/", "z", "/", "s">>
                 ELSE <<"/">> \o path,
         Goroot |-> path \in {pathRuntime, pathRuntimeRace},
         Root |-> IF path \in {pathRuntime, pathRuntimeRace}
                  THEN "goroot" ELSE "gopath",
         PkgObj |-> path,
         Imports |-> IF rev THEN Reverse(imps) ELSE imps,
         GoFiles |-> IF u # "" THEN GoFiles[u]
                     ELSE IF path = pathRuntimeRace THEN <<"rr.go">>
                     ELSE <<"s.go">>,
         TestGoFiles |-> IF u # "" THEN TestGoFiles[u] ELSE NoFiles,
         XTestGoFiles |-> IF u # "" THEN XTestGoFiles[u] ELSE NoFiles,
         SwigFiles |-> IF u # "" THEN SwigFiles[u] ELSE NoFiles,
         SwigCXXFiles |-> IF u # "" THEN SwigCXXFiles[u] ELSE NoFiles,
         CFiles |-> IF tree = "cfiles" /\ path = pathY THEN <<"y.c">>
                    ELSE NoFiles,
         CgoFiles |-> NoFiles]

\* The state of one loading invocation: its position, the locals of
\* packagesForBuild (args, set, pkgs, stk), the pending call of loadImport
\* and the value it returned, the stack of Package.load calls under way,
\* the package cache and, for each key, how many packages were allocated
\* for it.
NilList == <<Nil>>
NoPackageError == [ImportStack |-> <<>>, Err |-> "", isImportCycle |-> FALSE]
NoTarget == [suffix |-> <<>>, path |-> <<>>]
NoCall == [path |-> <<>>, srcDir |-> <<>>, BuildTags |-> <<>>]
NoCache == [k \in {} |-> 0]

LdIdle == [pc |-> "idle", cmd |-> "", tree |-> "ok", rev |-> FALSE,
           args |-> <<>>, argi |-> 0, set |-> {}, pkgs |-> <<>>,
           stk |-> <<>>, call |-> NoCall, ret |-> <<>>, frames |-> <<>>,
           packageCache |-> NoCache, allocs |-> NoCache, all |-> <<>>,
           i |-> 0, out |-> <<>>, disk |-> [f \in {} |-> <<>>]]

LdStopped(r) == r.pc \in {"idle", "done", "exit1", "fatal"}
LdUnchanged ==
    UNCHANGED <<srcData, srcTime, clock, target, store, inode, cacheDir,
                pkgDir, sameFS, runs, envn, hist>>

\* restore, lines 501-514, up to the call of loadAll; the cache directory
\* exists.
ld_restore(p, tree, rev, args) ==
    /\ proc[p].pc = "idle"
    /\ \A q \in Procs : LdStopped(proc[q])
    /\ cacheDir
    /\ proc' = [proc EXCEPT ![p] =
                  [LdIdle EXCEPT !.pc = "pfb", !.cmd = "restore",
                                 !.tree = tree, !.rev = rev, !.args = args,
                                 !.argi = 1, !.disk = srcData]]
    /\ LdUnchanged

\* packagesForBuild, lines 1221-1226, and loadPackage, lines 1181-1208: the
\* next argument not yet seen is split into its path and its options and
\* handed to loadImport with the build context the options ask for.
ld_arg(p) ==
    LET r == proc[p] IN
    /\ r.pc = "pfb"
    /\ proc' = [proc EXCEPT ![p] =
          IF r.argi > Len(r.args) THEN [r EXCEPT !.pc = "computeStale"]
          ELSE LET arg == r.args[r.argi]
                   base == packageBaseImportPath(arg)
                   options == packageOptions(arg)
               IN  IF arg \in r.set THEN [r EXCEPT !.argi = @ + 1]
                   ELSE [r EXCEPT !.pc = "loadImport",
                                  !.call = [path |-> base, srcDir |-> cwd,
                                            BuildTags |->
                                               IF contains(options, optRace)
                                               THEN <<optRace>> ELSE <<>>]]]
    /\ LdUnchanged

\* reusePackage, lines 795-815.
shorterThan(s, t) ==
    IF Len(s) # Len(t) THEN Len(s) < Len(t)
    ELSE \E i \in 1..Len(s) :
            /\ \A j \in 1..(i - 1) : s[j] = t[j]
            /\ s[i] # t[i] /\ StrLess(s[i], t[i])

\* A test that takes no package to be in the midst of its load.
neverInProgress(pk) == FALSE

\* line 799: p.imports == nil
inProgress(pk) == pk.imports = NilList

reusePackage(pk, stk) ==
    LET p1 == IF inProgress(pk)
              THEN [pk EXCEPT
                      !.Error = IF pk.Error = NoPackageError
                                THEN [ImportStack |-> stk,
                                      Err |-> "import cycle not allowed",
                                      isImportCycle |-> TRUE]
                                ELSE @,
                      !.Incomplete = TRUE]
              ELSE pk
    IN  IF p1.Error # NoPackageError /\ ~p1.Error.isImportCycle
           /\ shorterThan(stk, p1.Error.ImportStack)
        THEN [p1 EXCEPT !.Error.ImportStack = stk]
        ELSE p1

\* Package.load, lines 895-915: the declared imports and the implicit ones.
loadImportPaths(pk) ==
    pk.Imports
      \o (IF Len(pk.CgoFiles) > 0
             /\ (~pk.Standard \/ pk.baseImportPath # pathRuntimeCgo)
          THEN << pathRuntimeCgo >> ELSE <<>>)
      \o (IF Len(pk.CgoFiles) > 0
             /\ (~pk.Standard
                 \/ pk.baseImportPath \notin {pathRuntimeCgo, pathRuntimeRace})
          THEN << pathSyscall >> ELSE <<>>)
      \o (IF ~pk.Standard
             \/ (pk.baseImportPath # pathRuntime
                 /\ pk.baseImportPath # pathUnsafe)
          THEN <<pathRuntime>>
                 \o (IF pk.race
                        /\ (~pk.Standard
                            \/ pk.baseImportPath \notin
                                 {pathRuntimeRace, pathRuntimeCgo,
                                  pathCmdCgo, pathSyscall, pathErrors})
                     THEN <<pathRuntimeRace>> ELSE <<>>)
          ELSE <<>>)

\* new(Package) filled by loadImport, lines 763-781, and by the head of
\* Package.load, lines 858-893.  No package of the trees is a command.
newPackage(bp, full, importPath, isLocal, tags) ==
    LET std == bp.Goroot /\ full # <<>> /\ ~ContainsChar(full, ".")
        isRace == contains(tags, optRace)
    IN  [ImportPath |-> full, baseImportPath |-> importPath,
         Dir |-> bp.Dir, Goroot |-> bp.Goroot, Root |-> bp.Root,
         PkgObj |-> [suffix |-> IF isRace THEN optRace ELSE <<>>,
                     path |-> bp.PkgObj],
         Imports |-> bp.Imports, GoFiles |-> bp.GoFiles,
         TestGoFiles |-> bp.TestGoFiles, CFiles |-> bp.CFiles,
         CgoFiles |-> bp.CgoFiles, XTestGoFiles |-> bp.XTestGoFiles,
         SwigFiles |-> bp.SwigFiles, SwigCXXFiles |-> bp.SwigCXXFiles,
         Standard |-> std, race |-> isRace, local |-> isLocal,
         Target |-> NoTarget, Stale |-> FALSE, Incomplete |-> FALSE,
         Error |-> NoPackageError, imports |-> NilList, deps |-> <<>>,
         fingerprint |-> Nil]

\* What loadImport's return leaves behind: the deferred stk.pop() and the
\* package handed to the caller.
ldReturn(r, key) ==
    [r EXCEPT !.pc = "return", !.ret = key,
              !.stk = SubSeq(r.stk, 1, Len(r.stk) - 1)]

\* A lookup that finds no package.
cacheMiss(C, key) == FALSE

\* line 759: packageCache[fullImportPath] != nil
cacheHit(C, key) == key \in DOMAIN C

\* A key that leaves out the build tags.
plainImportPath(importPath, tags) == importPath

\* lines 755-758
fullImportPathOf(importPath, tags) ==
    IF contains(tags, optRace) THEN importPath \o <<":">> \o optRace
    ELSE importPath

\* loadImport, lines 741-782, and Package.load up to its loop, lines
\* 857-915.
ld_loadImport(p) ==
    LET r == proc[p]
        path == r.call.path
        tags == r.call.BuildTags
        stk == Append(r.stk, path)
        isLocal == IsLocalImport(path)
        importPath == IF isLocal THEN dirToImportPath(r.call.srcDir, path)
                      ELSE path
        fullImportPath == fullImportPathOf(importPath, tags)
        r1 == [r EXCEPT !.stk = stk]
    IN
    /\ r.pc = "loadImport"
    /\ Len(r.stk) < MaxDepth
    /\ proc' = [proc EXCEPT ![p] =
          IF cacheHit(r.packageCache, fullImportPath)
          THEN ldReturn([r1 EXCEPT !.packageCache[fullImportPath] =
                                        reusePackage(@, stk)],
                        fullImportPath)
          ELSE LET bp == Import(r.tree, r.rev, path)
                   p0 == newPackage(bp, fullImportPath, importPath, isLocal,
                                    tags)
                   r2 == [r1 EXCEPT !.allocs =
                             (fullImportPath :>
                                 (IF fullImportPath \in DOMAIN r.allocs
                                  THEN r.allocs[fullImportPath] + 1 ELSE 1))
                             @@ r.allocs]
               IN  IF bp.err
                   THEN ldReturn(
                          [r2 EXCEPT !.packageCache =
                              (fullImportPath :>
                                 [p0 EXCEPT !.Incomplete = TRUE,
                                            !.Error = [ImportStack |-> stk,
                                                       Err |-> "import",
                                                       isImportCycle |-> FALSE]])
                              @@ r.packageCache],
                          fullImportPath)
                   ELSE LET p1 == [p0 EXCEPT !.Target =
                                      IF isLocal THEN NoTarget ELSE p0.PkgObj]
                        IN  [r2 EXCEPT
                               !.pc = "load",
                               !.packageCache =
                                   (fullImportPath :> p1) @@ r.packageCache,
                               !.frames = Append(@,
                                   [key |-> fullImportPath,
                                    importPaths |-> loadImportPaths(p1),
                                    i |-> 1, imports |-> <<>>,
                                    deps |-> <<>>,
                                    BuildTags |-> tags])]]
    /\ LdUnchanged

\* The deps map of Package.load as the list of its <<path, package>>
\* entries in the order the paths were first set.
mapSet(dm, k, v) ==
    IF \E i \in 1..Len(dm) : dm[i][1] = k
    THEN [i \in 1..Len(dm) |-> IF dm[i][1] = k THEN <<k, v>> ELSE dm[i]]
    ELSE Append(dm, <<k, v>>)

\* The values of the map in the order of its entries.
unsortedDeps(dm) == [i \in 1..Len(dm) |-> dm[i][2]]

\* lines 949-953: the values of the map, one for each entry, sorted by
\* sort.Sort(packageList(p.deps)) into ascending ImportPath.
sortDeps(dm) ==
    LET rank(i) ==
            Cardinality({j \in 1..Len(dm) :
                            \/ StrLess(dm[j][2], dm[i][2])
                            \/ dm[j][2] = dm[i][2] /\ j <= i})
    IN  [n \in 1..Len(dm) |->
            dm[CHOOSE i \in 1..Len(dm) : rank(i) = n][2]]

\* Package.load, lines 919-923 and 947-970: the loop calls loadImport for
\* the next path; after the last one the imports and the sorted dependency
\* list are set, C sources without cgo are refused, and load and the
\* loadImport that called it return.
ld_load(p) ==
    LET r == proc[p]
        f == r.frames[Len(r.frames)]
        pk == r.packageCache[f.key]
    IN
    /\ r.pc = "load"
    /\ proc' = [proc EXCEPT ![p] =
          IF f.i <= Len(f.importPaths)
          THEN IF f.importPaths[f.i] = <<"C">>
               THEN [r EXCEPT !.frames[Len(r.frames)].i = @ + 1]
               ELSE [r EXCEPT !.pc = "loadImport",
                              !.call = [path |-> f.importPaths[f.i],
                                        srcDir |-> pk.Dir,
                                        BuildTags |-> f.BuildTags]]
          ELSE LET p1 == [pk EXCEPT
                            !.imports = f.imports,
                            !.deps = sortDeps(f.deps),
                            !.Target =
                                IF pk.Standard /\ pk.baseImportPath = pathUnsafe
                                THEN NoTarget ELSE @]
                   p2 == IF Len(p1.CFiles) > 0 /\ Len(p1.CgoFiles) = 0
                            /\ (~p1.Standard \/ p1.baseImportPath # pathRuntime)
                         THEN [p1 EXCEPT !.Error =
                                  [ImportStack |-> r.stk, Err |-> "C source",
                                   isImportCycle |-> FALSE]]
                         ELSE p1
               IN  ldReturn([r EXCEPT
                               !.packageCache[f.key] = p2,
                               !.frames = SubSeq(@, 1, Len(@) - 1)],
                            f.key)]
    /\ LdUnchanged

\* lines 938-942: deps[path] = p1, then deps[dep.ImportPath] = dep for each
\* dep of p1.deps.
RECURSIVE addDeps(_, _)
addDeps(dm, depKeys) ==
    IF depKeys = <<>> THEN dm
    ELSE addDeps(mapSet(dm, Head(depKeys), Head(depKeys)), Tail(depKeys))

\* The return of loadImport: to packagesForBuild, lines 1223-1224, or into
\* the loop of Package.load, lines 924-946.
ld_return(p) ==
    LET r == proc[p] IN
    /\ r.pc = "return"
    /\ proc' = [proc EXCEPT ![p] =
          IF r.frames = <<>>
          THEN [r EXCEPT !.pc = "pfb", !.pkgs = Append(@, r.ret),
                         !.set = @ \cup {r.args[r.argi]},
                         !.argi = @ + 1]
          ELSE LET n == Len(r.frames)
                   f == r.frames[n]
                   pk == r.packageCache[f.key]
                   p1 == r.packageCache[r.ret]
                   path == IF p1.local THEN p1.ImportPath
                           ELSE f.importPaths[f.i]
                   e1 == IF p1.local /\ ~pk.local /\ pk.Error = NoPackageError
                         THEN [ImportStack |-> r.stk, Err |-> "local import",
                               isImportCycle |-> FALSE]
                         ELSE pk.Error
               IN  [r EXCEPT
                      !.pc = "load",
                      !.packageCache[f.key] =
                          [pk EXCEPT !.Error = e1,
                                     !.Incomplete = @ \/ p1.Incomplete],
                      !.frames[n] =
                          [f EXCEPT !.i = @ + 1,
                                    !.importPaths[f.i] = path,
                                    !.imports = Append(@, r.ret),
                                    !.deps = addDeps(mapSet(@, path, r.ret),
                                                     p1.deps)]]]
    /\ LdUnchanged

\* computeStale and isStale over the loaded packages.  C is the package
\* cache; the lists of files the trees leave empty are left out.
installed(t) ==
    IF t.suffix = <<>> /\ unitAt(t.path) # "" THEN target[unitAt(t.path)]
    ELSE NoFile

\* Package.usesSwig, lines 974-976.
pkUsesSwig(pk) == Len(pk.SwigFiles) > 0 \/ Len(pk.SwigCXXFiles) > 0

\* A test that finds sources in every package.
hasSourcesAlways(pk) == FALSE

\* lines 1116-1117: the package has no Go sources.
withoutGoSources(pk) ==
    /\ Len(pk.GoFiles) = 0 /\ Len(pk.CgoFiles) = 0
    /\ Len(pk.TestGoFiles) = 0 /\ Len(pk.XTestGoFiles) = 0
    /\ ~pkUsesSwig(pk)

\* A test that puts every package in the tree of a root.
inTreeAlways(pk, topRoot) == FALSE

\* line 1158: the package is in the tree of no package of the command line.
outOfTree(pk, topRoot) == pk.Root # "" /\ pk.Root \notin topRoot

pkIsStale(C, key, topRoot) ==
    LET pk == C[key] IN
    IF pk.Standard /\ pk.baseImportPath = pathUnsafe THEN FALSE
    ELSE IF pk.Error # NoPackageError THEN TRUE
    ELSE IF withoutGoSources(pk) THEN FALSE
    ELSE IF pk.Target = NoTarget \/ pk.Stale THEN TRUE
    ELSE IF installed(pk.Target) = NoFile
            \/ inode[installed(pk.Target)].mtime = 0 THEN TRUE
    ELSE LET built == inode[installed(pk.Target)].mtime
         IN  IF \E d \in Range(pk.deps) :
                    \/ C[d].Stale
                    \/ /\ C[d].Target # NoTarget
                       /\ \/ installed(C[d].Target) = NoFile
                          \/ inode[installed(C[d].Target)].mtime > built
             THEN TRUE
             ELSE IF outOfTree(pk, topRoot) THEN FALSE
             ELSE \E src \in Range(stringList(<<pk.GoFiles, pk.CFiles,
                                                pk.CgoFiles, pk.SwigFiles,
                                                pk.SwigCXXFiles>>)) :
                      olderThanSrc(src, built)

importsOf(pk) == IF pk.imports = NilList THEN <<>> ELSE pk.imports

\* A walk that lists a package before the packages it imports.
RECURSIVE pkWalkPreOrder(_, _, _), pkWalkPreOrderList(_, _, _)
pkWalkPreOrder(C, key, st) ==
    IF key \in st.seen THEN st
    ELSE pkWalkPreOrderList(C, importsOf(C[key]),
                            [seen |-> st.seen \cup {key},
                             all |-> Append(st.all, key)])
pkWalkPreOrderList(C, list, st) ==
    IF list = <<>> THEN st
    ELSE pkWalkPreOrderList(C, Tail(list), pkWalkPreOrder(C, Head(list), st))

\* lines 1069-1087: walk, and the loop over the roots.
RECURSIVE pkWalk(_, _, _), pkWalkList(_, _, _)
pkWalk(C, key, st) ==
    IF key \in st.seen THEN st
    ELSE LET s1 == pkWalkList(C, importsOf(C[key]),
                              [st EXCEPT !.seen = @ \cup {key}])
         IN  [s1 EXCEPT !.all = Append(@, key)]
pkWalkList(C, list, st) ==
    IF list = <<>> THEN st
    ELSE pkWalkList(C, Tail(list), pkWalk(C, Head(list), st))

RECURSIVE pkStaleLoop(_, _, _)
pkStaleLoop(C, list, topRoot) ==
    IF list = <<>> THEN C
    ELSE pkStaleLoop([C EXCEPT ![Head(list)].Stale =
                          pkIsStale(C, Head(list), topRoot)],
                     Tail(list), topRoot)

pkComputeStale(C, pkgs) ==
    pkStaleLoop(C, pkWalkList(C, pkgs, [seen |-> {}, all |-> <<>>]).all,
                {C[k].Root : k \in Range(pkgs)})

\* A count that finds no error.
noErrors(C, pkgs) == 0

\* A count that leaves out the errors of the dependencies.
rootErrors(C, pkgs) ==
    Cardinality({i \in 1..Len(pkgs) : C[pkgs[i]].Error # NoPackageError})

\* packagesForBuild, lines 1229-1249: the errors it prints, one for each
\* root with an error and one for each error of a dependency.
loadErrors(C, pkgs) ==
    Cardinality({i \in 1..Len(pkgs) : C[pkgs[i]].Error # NoPackageError})
      + Cardinality({d \in UNION {Range(C[k].deps) : k \in Range(pkgs)} :
                        C[d].Error # NoPackageError})

\* loadAll, lines 1259-1275.
RECURSIVE sortKeys(_)
sortKeys(S) ==
    IF S = {} THEN <<>>
    ELSE LET m == CHOOSE m \in S : \A o \in S \ {m} : StrLess(m, o)
         IN  <<m>> \o sortKeys(S \ {m})

pkLoadAll(C, roots) ==
    sortKeys(Range(roots) \cup UNION {Range(C[k].deps) : k \in Range(roots)})

\* packagesForBuild from computeStale on, lines 1227-1253, and the rest of
\* loadAll: os.Exit(1) when a root or a dependency has an error, else the
\* loop of the command, save or restore, is next.
ld_computeStale(p) ==
    LET r == proc[p]
        C == pkComputeStale(r.packageCache, r.pkgs)
    IN
    /\ r.pc = "computeStale"
    /\ proc' = [proc EXCEPT ![p] =
          IF loadErrors(C, r.pkgs) > 0
          THEN [r EXCEPT !.pc = "exit1", !.packageCache = C]
          ELSE [r EXCEPT !.pc = r.cmd, !.packageCache = C,
                         !.all = pkLoadAll(C, r.pkgs), !.i = 1]]
    /\ LdUnchanged

\* Package.Fingerprint, lines 985-1057, over the loaded packages: the memo
\* is the fingerprint field of the packages of the cache C.
hashNoDep(pk, dep) == FALSE

\* line 993
pkSkipDep(pk, dep) == ~pk.race /\ dep.Standard

pkFlags(pk) ==
    stringList(<< <<runtimeVersion>>, <<runtimeGOOS>>, <<runtimeGOARCH>>,
                  <<pk.ImportPath>> >>)
pkFiles(pk) == stringList(<<pk.GoFiles, pk.CgoFiles, pk.CFiles>>)

RECURSIVE pkFingerprint(_, _, _), pkFingerprintDeps(_, _, _, _, _)
pkFingerprint(disk, C, key) ==
    IF C[key].fingerprint # Nil THEN C
    ELSE LET r == pkFingerprintDeps(disk, C, key, C[key].deps, <<>>)
         IN  IF r.fatal THEN [r.C EXCEPT ![key].fingerprint = Fatal]
             ELSE IF r.empty THEN [r.C EXCEPT ![key].fingerprint = <<>>]
             ELSE IF openFails(disk, pkFiles(C[key]))
             THEN [r.C EXCEPT ![key].fingerprint = Fatal]
             ELSE [r.C EXCEPT ![key].fingerprint =
                      hexSum(r.h \o WriteAll(pkFlags(C[key]))
                                 \o hashFiles(disk, pkFiles(C[key])))]

pkFingerprintDeps(disk, C, key, ds, h) ==
    IF ds = <<>> THEN [C |-> C, h |-> h, empty |-> FALSE, fatal |-> FALSE]
    ELSE LET dep == Head(ds)
         IN  IF pkSkipDep(C[key], C[dep])
             THEN pkFingerprintDeps(disk, C, key, Tail(ds), h)
             ELSE LET C1 == pkFingerprint(disk, C, dep)
                  IN  IF C1[dep].fingerprint = Fatal
                      THEN [C |-> C1, h |-> h, empty |-> FALSE,
                            fatal |-> TRUE]
                      ELSE IF C1[dep].fingerprint = <<>>
                      THEN [C |-> C1, h |-> h, empty |-> TRUE,
                            fatal |-> FALSE]
                      ELSE pkFingerprintDeps(disk, C1, key, Tail(ds),
                                             h \o C1[dep].fingerprint)

\* restore, lines 518-526, for the next package of the list: no entry of
\* the cache directory has the name of its fingerprint.
ld_restore_get(p) ==
    LET r == proc[p] IN
    /\ r.pc = "restore"
    /\ proc' = [proc EXCEPT ![p] =
          IF r.i > Len(r.all) THEN [r EXCEPT !.pc = "done"]
          ELSE LET key == r.all[r.i]
                   pk == r.packageCache[key]
                   C == pkFingerprint(srcData, r.packageCache, key)
               IN  IF pk.Standard /\ ~pk.race THEN [r EXCEPT !.i = @ + 1]
                   ELSE IF C[key].fingerprint = Fatal
                   THEN [r EXCEPT !.pc = "fatal", !.packageCache = C]
                   ELSE [r EXCEPT !.i = @ + 1, !.packageCache = C,
                                  !.out = Append(@,
                                     [tag |-> "-", ImportPath |-> key,
                                      fp |-> C[key].fingerprint])]]
    /\ store = EmptyStore
    /\ LdUnchanged

\* The requests of the loading invocations: import paths, with the race
\* option or without.
argZ == pathZ
argY == pathY
argX == pathX
argZRace == pathZ \o <<":">> \o optRace
LdRequests == {<<argZ>>, <<argX, argZ>>, <<argZ, argX>>, <<argZRace>>,
               <<argZRace, argZ>>, <<argX, argZ, argX>>, <<argY, argX>>}

LdStep(p) ==
    \/ ld_arg(p) \/ ld_loadImport(p) \/ ld_load(p) \/ ld_return(p)
    \/ ld_computeStale(p) \/ ld_restore_get(p)

\* One loading invocation over each of the trees.
InitLoad ==
    /\ srcData = [f \in SrcFiles |-> <<"a">>]
    /\ InitFS
    /\ cacheDir
    /\ proc = [p \in {1} |-> LdIdle]

NextLoad ==
    \/ \E p \in Procs, tree \in Trees, rev \in BOOLEAN, args \in LdRequests :
          ld_restore(p, tree, rev, args)
    \/ \E p \in Procs : LdStep(p)

SpecLoad == InitLoad /\ [][NextLoad]_vars

(***************************************************************************)
(* Two invocations, one after the other, over the sound tree, with edits   *)
(* of any source file, those of the standard library included, while no    *)
(* invocation runs.  What a finished invocation printed stays.             *)
(***************************************************************************)
EditSource(f, c) ==
    /\ \A q \in Procs : LdStopped(proc[q])
    /\ envn < MaxEnv
    /\ c # srcData[f]
    /\ srcData' = [srcData EXCEPT ![f] = c]
    /\ srcTime' = [srcTime EXCEPT ![f] = clock]
    /\ envn' = envn + 1
    /\ UNCHANGED <<clock, target, store, inode, cacheDir, pkgDir, sameFS,
                   runs, hist, proc>>

InitTwo ==
    /\ srcData = [f \in SrcFiles |-> <<"a">>]
    /\ InitFS
    /\ cacheDir /\ sameFS
    /\ proc = [p \in {1, 2} |-> LdIdle]

TwoRequests == {<<argX, argZ>>, <<argZ, argX>>, <<argZRace, argZ>>}

NextTwo ==
    \/ \E p \in Procs, rev \in BOOLEAN, args \in TwoRequests :
          /\ p = 2 => proc[1].pc # "idle"
          /\ ld_restore(p, "ok", rev, args)
    \/ \E p \in Procs : LdStep(p)
    \/ \E f \in SrcFiles, c \in Contents : EditSource(f, c)

SpecTwo == InitTwo /\ [][NextTwo]_vars

\* The fingerprint an invocation computed for the package of key k.
fpOf(r, k) ==
    IF k \in DOMAIN r.packageCache THEN r.packageCache[k].fingerprint
    ELSE Nil
LdKeys == UNION {DOMAIN proc[p].packageCache : p \in Procs}

\* The files of the standard packages among the dependencies of k.
stdDepFiles(C, k) ==
    UNION {Range(pkFiles(C[d])) : d \in {d \in Range(C[k].deps) : C[d].Standard}}
changedBetween(r1, r2) == {f \in SrcFiles : r1.disk[f] # r2.disk[f]}

\* C11 as stated: two invocations whose sources differ only in files of
\* standard packages among the dependencies of a package compute the same
\* fingerprint for it, whether it is built plain or for the race detector.
C11_StdEditKeepsFingerprint ==
    \A p, q \in Procs : \A k \in LdKeys :
        (/\ fpOf(proc[p], k) # Nil /\ fpOf(proc[q], k) # Nil
         /\ changedBetween(proc[p], proc[q])
               \subseteq stdDepFiles(proc[p].packageCache, k))
        => fpOf(proc[p], k) = fpOf(proc[q], k)

\* C11 as amended: the same for a package that is not built for the race
\* detector.
C11_PlainStdEditKeepsFingerprint ==
    \A p, q \in Procs : \A k \in LdKeys :
        (/\ fpOf(proc[p], k) # Nil /\ fpOf(proc[q], k) # Nil
         /\ ~proc[p].packageCache[k].race
         /\ changedBetween(proc[p], proc[q])
               \subseteq stdDepFiles(proc[p].packageCache, k))
        => fpOf(proc[p], k) = fpOf(proc[q], k)

\* Both invocations have fingerprinted e.z, built plain, and r.go of the
\* standard package runtime was edited between them.
C11_Witness ==
    /\ fpOf(proc[1], pathZ) # Nil /\ fpOf(proc[2], pathZ) # Nil
    /\ changedBetween(proc[1], proc[2]) = {"r.go"}
    /\ "r.go" \in stdDepFiles(proc[1].packageCache, pathZ)

\* C12: two invocations over the same sources compute the same fingerprint
\* for a package, whatever the order of the roots asked for, the order of
\* the import declarations and the packages fingerprinted before it.
C12_Deterministic ==
    \A p, q \in Procs : \A k \in LdKeys :
        (/\ fpOf(proc[p], k) # Nil /\ fpOf(proc[q], k) # Nil
         /\ proc[p].disk = proc[q].disk)
        => fpOf(proc[p], k) = fpOf(proc[q], k)

\* Two invocations over the same sources have fingerprinted e.z, one with
\* the import declarations in the other order and with other roots.
C12_Witness ==
    /\ fpOf(proc[1], pathZ) # Nil /\ fpOf(proc[2], pathZ) # Nil
    /\ proc[1].disk = proc[2].disk
    /\ proc[1].rev # proc[2].rev
    /\ proc[1].args = <<argX, argZ>> /\ proc[2].args = <<argZRace, argZ>>

(***************************************************************************)
(* Package.Fingerprint over packages whose fingerprint field is unset or   *)
(* holds the empty fingerprint.  Fingerprint itself only ever stores a     *)
(* digest in hexadecimal; the empty fingerprint is an input here.  Each    *)
(* call is logged with the package, whether its field was set, and the     *)
(* value returned.                                                         *)
(***************************************************************************)
InitMemo ==
    /\ srcData = [f \in SrcFiles |-> <<"a">>]
    /\ InitFS
    /\ \E memo \in [Units -> {Nil, <<>>}] :
          proc = [p \in {1} |-> [Idle EXCEPT !.fingerprint = memo]]

CallFingerprintOn(p, u) ==
    LET r == proc[p]
        memo == Fingerprint(srcData, u, r.fingerprint)
    IN
    /\ r.pc = "idle" /\ runs < MaxRuns
    /\ runs' = runs + 1
    /\ proc' = [proc EXCEPT ![p] =
                  [r EXCEPT !.fingerprint = memo, !.fp = memo[u],
                            !.out = Append(@, [pkg |-> u,
                                               set |-> r.fingerprint[u] # Nil,
                                               fp |-> memo[u]])]]
    /\ UNCHANGED <<srcData, srcTime, clock, target, store, inode, cacheDir,
                   pkgDir, sameFS, envn, hist>>

NextMemo == \E p \in Procs, u \in Units : CallFingerprintOn(p, u)

SpecMemo == InitMemo /\ [][NextMemo]_vars

\* The dependencies Fingerprint(u) writes to the hash, in its order.
includedDeps(u) == SelectSeq(deps(u), LAMBDA d : ~skipDep(u, d))

\* C13: a call of Fingerprint on a package whose field is set returns the
\* field and changes no field; a call on a package whose field is unset,
\* when a dependency it includes has the empty fingerprint, returns the
\* empty fingerprint and stores it, and the dependencies after the first
\* such one are not fingerprinted; no field that is set changes.
C13_IndeterminatePropagates ==
    [][\A p \in Procs :
         LET m == proc[p].fingerprint
             m2 == proc'[p].fingerprint
             e == proc'[p].out[Len(proc'[p].out)]
             ds == includedDeps(e.pkg)
         IN  proc'[p].out # proc[p].out =>
               /\ \A u \in Units : m[u] # Nil => m2[u] = m[u]
               /\ e.fp = m2[e.pkg]
               /\ m[e.pkg] # Nil => m2 = m
               /\ (m[e.pkg] = Nil /\ \E i \in 1..Len(ds) : m2[ds[i]] = <<>>)
                    => /\ e.fp = <<>>
                       /\ \A i \in 1..Len(ds) :
                            (/\ m2[ds[i]] = <<>>
                             /\ \A j \in 1..(i - 1) : m2[ds[j]] # <<>>)
                            => \A j \in (i + 1)..Len(ds) :
                                 (/\ m[ds[j]] = Nil
                                  /\ \A k \in 1..(i - 1) :
                                        ds[j] \notin depSet(ds[k]))
                                 => m2[ds[j]] = Nil
    ]_vars

\* Fingerprint was called on e.z with its field unset while e.x had the
\* empty fingerprint: it returned the empty fingerprint, e.y was left
\* alone, and a second call returned the stored value.
C13_Witness ==
    \E p \in Procs :
        LET r == proc[p] IN
        /\ Len(r.out) = 2
        /\ r.out[1] = [pkg |-> "e.z", set |-> FALSE, fp |-> <<>>]
        /\ r.out[2] = [pkg |-> "e.z", set |-> TRUE, fp |-> <<>>]
        /\ r.fingerprint["e.x"] = <<>> /\ r.fingerprint["e.y"] = Nil

(***************************************************************************)
(* One invocation at a time, with a source file that is removed while an   *)
(* invocation is between loading the packages and fingerprinting them.     *)
(***************************************************************************)
Unlink(f) ==
    /\ \E p \in Procs : ~Stopped(proc[p])
    /\ envn < MaxEnv
    /\ srcData[f] # Missing
    /\ srcData' = [srcData EXCEPT ![f] = Missing]
    /\ envn' = envn + 1
    /\ UNCHANGED <<srcTime, clock, target, store, inode, cacheDir, pkgDir,
                   sameFS, proc, runs, hist>>

allPresent == \A f \in SrcFiles : srcData[f] # Missing

NextMiss ==
    \/ \E p \in Procs, args \in Requests : allPresent /\ main_save(p, args)
    \/ \E p \in Procs, args \in Requests : allPresent /\ main_restore(p, args)
    \/ \E p \in Procs : Step(p)
    \/ \E f \in WsFiles : Unlink(f)

SpecMiss == Init /\ [][NextMiss]_vars

\* The invocation ended in the log.Fatal of Fingerprint.
abortedInFingerprint(r) ==
    /\ r.pc = "fatal"
    /\ r.i \in 1..Len(r.pkgs)
    /\ r.fingerprint[pkgOf(r)] = Fatal

\* C14: no save and no restore ends in Fingerprint because a source file
\* cannot be read: the call returns a fingerprint and the invocation goes
\* on to report the package.
C14_FingerprintNeverAborts ==
    \A p \in Procs :
        /\ ~abortedInFingerprint(proc[p])
        /\ \A u \in Units : proc[p].fingerprint[u] # Fatal

(***************************************************************************)
(* Properties of loading (SpecLoad).  An invocation runs its steps one     *)
(* after the other until it returns or exits, so a step that is possible   *)
(* is taken.                                                               *)
(***************************************************************************)
LdLoadStep(p) ==
    ld_arg(p) \/ ld_loadImport(p) \/ ld_load(p) \/ ld_return(p)

SpecLoadFair == SpecLoad /\ WF_vars(\E p \in {1} : LdLoadStep(p))

loading(r) == r.pc \in {"pfb", "loadImport", "load", "return"}

\* C15: loading the packages of a request comes to an end for every tree,
\* the one with the import cycle included, with at most one package
\* allocated for each key and the calls of loadImport nested less than
\* MaxDepth deep.
C15_LoadTerminates ==
    /\ [](\A p \in {1} :
             /\ \A k \in DOMAIN proc[p].allocs : proc[p].allocs[k] <= 1
             /\ Len(proc[p].stk) < MaxDepth)
    /\ \A p \in {1} : loading(proc[p]) ~> ~loading(proc[p])

\* The tree with the cycle has been loaded: e.z was reached again while it
\* was being loaded, and the load has come to its end.
C15_Witness ==
    \E p \in Procs :
        /\ proc[p].tree = "cycle" /\ proc[p].pc = "exit1"
        /\ \E k \in DOMAIN proc[p].packageCache :
              proc[p].packageCache[k].Error.isImportCycle

\* The packages of a loaded tree by the path they were imported under.
loaded(r) == r.pc \in {"computeStale", "restore", "done", "exit1", "fatal"}
keysOf(r, paths) ==
    {k \in DOMAIN r.packageCache : r.packageCache[k].baseImportPath \in paths}
clean(pk) == pk.Error = NoPackageError /\ ~pk.Incomplete

\* C16 as stated: after the load of the tree in which e.y and e.z import
\* each other, both are Incomplete and each has an import cycle recorded
\* as its error, with their imports and dependencies set; e.x and runtime,
\* which are not on the cycle and do not depend on it, have no error and
\* are not Incomplete.
C16_BothHaveCycleError ==
    \A p \in Procs :
        LET r == proc[p] IN
        (r.tree = "cycle" /\ loaded(r)) =>
            /\ \A k \in keysOf(r, {pathY, pathZ}) :
                  /\ r.packageCache[k].Incomplete
                  /\ r.packageCache[k].Error.isImportCycle
                  /\ r.packageCache[k].imports # NilList
            /\ \A k \in keysOf(r, {pathX, pathRuntime, pathRuntimeRace}) :
                  clean(r.packageCache[k])

\* C16 as amended: both are Incomplete with their imports and dependencies
\* set; the import cycle is recorded as the error of the one that was
\* reached again while its load was under way, with the import stack that
\* ends in it, and the other has no error of its own.
C16_OneHasCycleError ==
    \A p \in Procs :
        LET r == proc[p]
            C == r.packageCache
        IN
        (r.tree = "cycle" /\ loaded(r)) =>
            /\ \A k \in keysOf(r, {pathY, pathZ}) :
                  /\ C[k].Incomplete
                  /\ C[k].imports # NilList
                  /\ \/ C[k].Error = NoPackageError
                     \/ /\ C[k].Error.isImportCycle
                        /\ LET st == C[k].Error.ImportStack
                           IN  /\ st[Len(st)] = C[k].baseImportPath
                               /\ \E i \in 1..(Len(st) - 1) : st[i] = st[Len(st)]
            /\ \A t \in {<<>>, <<":">> \o optRace} :
                  (pathY \o t \in DOMAIN C /\ pathZ \o t \in DOMAIN C) =>
                      C[pathY \o t].Error.isImportCycle
                          # C[pathZ \o t].Error.isImportCycle
            /\ \A k \in keysOf(r, {pathX, pathRuntime, pathRuntimeRace}) :
                  clean(C[k])

\* The tree with the cycle has been loaded from the root e.y: e.y has the
\* cycle as its error and e.z, Incomplete, has none.
C16_Witness ==
    \E p \in Procs :
        LET r == proc[p] IN
        /\ r.tree = "cycle" /\ loaded(r) /\ r.args = <<argY, argX>>
        /\ r.packageCache[pathY].Error.isImportCycle
        /\ r.packageCache[pathZ].Incomplete
        /\ r.packageCache[pathZ].Error = NoPackageError
        /\ clean(r.packageCache[pathX])

\* C17: at every point of a load each key of the package cache names one
\* package, allocated once, whose ImportPath is the key; the package of a
\* key with the race option is built for the race detector and the package
\* of the key without it is not, so the two are two packages; every import
\* of a package is a package of the cache of the same variant, and every
\* root asked for is the package of its key.
C17_OneInstancePerKey ==
    \A p \in Procs :
        LET r == proc[p]
            C == r.packageCache
        IN
        /\ DOMAIN r.allocs = DOMAIN C
        /\ \A k \in DOMAIN C :
              /\ r.allocs[k] = 1
              /\ C[k].ImportPath = k
              /\ C[k].baseImportPath = packageBaseImportPath(k)
              /\ C[k].race = contains(packageOptions(k), optRace)
              /\ C[k].imports # NilList =>
                    \A i \in 1..Len(C[k].imports) :
                        /\ C[k].imports[i] \in DOMAIN C
                        /\ C[C[k].imports[i]].race = C[k].race
        /\ \A arg \in r.set : arg \in Range(r.pkgs)

\* e.z has been loaded both plain and for the race detector in one load,
\* and e.x, imported by e.y and by e.z, is one package in each variant.
C17_Witness ==
    \E p \in Procs :
        LET r == proc[p] IN
        /\ loaded(r) /\ r.tree = "ok" /\ r.args = <<argZRace, argZ>>
        /\ {pathZ, argZRace, pathX, pathX \o <<":">> \o optRace}
              \subseteq DOMAIN r.packageCache
        /\ r.packageCache[argZRace].race /\ ~r.packageCache[pathZ].race

\* A root and its dependencies have no error.
closureClean(C, k) ==
    /\ C[k].Error = NoPackageError
    /\ \A d \in Range(C[k].deps) : C[d].Error = NoPackageError
reported(r, k) == \E j \in 1..Len(r.out) : r.out[j].ImportPath = k

\* C18 as stated: an invocation that ends with status 1 because a root or
\* a dependency of a root has an error has printed a line for every root
\* of the request that has no error and whose dependencies have none.
C18_CleanRootsReported ==
    \A p \in Procs :
        LET r == proc[p] IN
        r.pc = "exit1" =>
            \A i \in 1..Len(r.pkgs) :
                closureClean(r.packageCache, r.pkgs[i]) => reported(r, r.pkgs[i])

\* C18 as amended: an invocation ends with status 1 exactly when a root or
\* a dependency of a root has an error, and then it has fingerprinted no
\* package and printed no line, for the roots without errors either; an
\* invocation that goes on to fingerprint and report has no error in any
\* root or dependency.
C18_ErrorEndsRun ==
    \A p \in Procs :
        LET r == proc[p]
            C == r.packageCache
        IN
        /\ r.pc = "exit1" =>
              /\ \E i \in 1..Len(r.pkgs) : ~closureClean(C, r.pkgs[i])
              /\ r.out = <<>>
              /\ \A k \in DOMAIN C : C[k].fingerprint = Nil
        /\ r.pc \in {"restore", "done"} =>
              \A i \in 1..Len(r.pkgs) : closureClean(C, r.pkgs[i])

\* The request e.x e.z has ended with status 1 in the tree where e.y cannot
\* be read: e.x and its dependencies have no error, and no line was
\* printed for it.
C18_Witness ==
    \E p \in Procs :
        LET r == proc[p] IN
        /\ r.pc = "exit1" /\ r.tree = "badpkg" /\ r.args = <<argX, argZ>>
        /\ closureClean(r.packageCache, pathX)
        /\ ~closureClean(r.packageCache, pathZ)
        /\ ~reported(r, pathX)

\* C19: an invocation that ends with status 1 for the errors of the load
\* has a root, or a dependency of a root, that is marked Incomplete,
\* whatever the error: a package that cannot be read, an import cycle, a
\* local import in a package that is not local, C sources without cgo.
C19_FailureImpliesIncomplete ==
    \A p \in Procs :
        LET r == proc[p]
            C == r.packageCache
        IN
        r.pc = "exit1" =>
            \E k \in Range(r.pkgs) \cup UNION {Range(C[q].deps) : q \in Range(r.pkgs)} :
                C[k].Incomplete

\* C20: once computeStale has run, every root and every dependency of a
\* root that has a stale package among its dependencies is stale.
C20_StaleMonotone ==
    \A p \in Procs :
        LET r == proc[p]
            C == r.packageCache
        IN
        (loaded(r) /\ r.pc # "computeStale") =>
            \A k \in Range(r.pkgs) \cup UNION {Range(C[q].deps) : q \in Range(r.pkgs)} :
                \A d \in Range(C[k].deps) : C[d].Stale => C[k].Stale

(***************************************************************************)
(* computeStale one package at a time: the list of the depth-first         *)
(* post-order traversal, lines 1067-1087, and then one call of isStale     *)
(* for each package of the list, lines 1089-1091.                          *)
(***************************************************************************)
cs_packageList(p) ==
    LET r == proc[p] IN
    /\ r.pc = "computeStale"
    /\ proc' = [proc EXCEPT ![p] =
          [r EXCEPT !.pc = "isStale", !.i = 1,
                    !.all = pkWalkList(r.packageCache, r.pkgs,
                                       [seen |-> {}, all |-> <<>>]).all]]
    /\ LdUnchanged

cs_topRoot(r) == {r.packageCache[k].Root : k \in Range(r.pkgs)}

cs_isStale(p) ==
    LET r == proc[p]
        C == r.packageCache
    IN
    /\ r.pc = "isStale"
    /\ proc' = [proc EXCEPT ![p] =
          IF r.i <= Len(r.all)
          THEN [r EXCEPT !.i = @ + 1,
                         !.packageCache[r.all[r.i]].Stale =
                             pkIsStale(C, r.all[r.i], cs_topRoot(r))]
          ELSE IF loadErrors(C, r.pkgs) > 0 THEN [r EXCEPT !.pc = "exit1"]
          ELSE [r EXCEPT !.pc = r.cmd, !.all = pkLoadAll(C, r.pkgs),
                         !.i = 1]]
    /\ LdUnchanged

(***************************************************************************)
(* isStale on every package it can be given.  The invocation has loaded    *)
(* e.z, which imports e.y, which imports e.x, and computeStale has come to *)
(* e.y: e.x has its Stale flag, e.y is next.  The error of e.y, its        *)
(* sources, its install path, its Stale field, its tree, the install path  *)
(* and the Stale flag of e.x, and the files and their times are any of     *)
(* those below.  (Package.Stale is false when computeStale starts; isStale *)
(* reads it, and both values are given here.)                              *)
(***************************************************************************)
SomeError == [ImportStack |-> <<pathZ, pathY>>, Err |-> "import",
              isImportCycle |-> FALSE]

\* A package as loadImport and Package.load leave it, lines 763-781 and
\* 858-953, given the packages it imports and its sorted dependencies.
loadedPackage(path, imps, ds) ==
    LET p0 == newPackage(Import("ok", FALSE, path), path, path, FALSE, <<>>)
    IN  [p0 EXCEPT !.Target = p0.PkgObj, !.imports = imps, !.deps = ds]

StaleCaches ==
    LET rt == loadedPackage(pathRuntime, <<>>, <<>>)
        x0 == loadedPackage(pathX, <<pathRuntime>>, <<pathRuntime>>)
        y0 == loadedPackage(pathY, <<pathX, pathRuntime>>,
                            <<pathX, pathRuntime>>)
        z0 == loadedPackage(pathZ, <<pathY, pathX, pathRuntime>>,
                            <<pathX, pathY, pathRuntime>>)
    IN  { (pathRuntime :> rt) @@ (pathZ :> z0)
          @@ (pathX :> [x0 EXCEPT !.Stale = xs, !.Target = xt])
          @@ (pathY :> [y0 EXCEPT !.Error = e, !.GoFiles = g,
                                  !.TestGoFiles = t, !.Target = yt,
                                  !.Stale = ys, !.Root = root]) :
          xs \in BOOLEAN, xt \in {NoTarget, x0.PkgObj},
          e \in {NoPackageError, SomeError},
          g \in {NoFiles, <<"y.go">>}, t \in {NoFiles, <<"y_test.go">>},
          yt \in {NoTarget, y0.PkgObj}, ys \in BOOLEAN,
          root \in {"", "gopath", "other"} }

InitStale ==
    /\ srcData = [f \in SrcFiles |-> <<"a">>]
    /\ srcTime \in {[[f \in SrcFiles |-> 1] EXCEPT !["y.go"] = t] :
                       t \in {1, 3}}
    /\ clock = 3
    /\ target \in {("runtime" :> 1 @@ "e.x" :> x @@ "e.y" :> y @@ "e.z" :> 4) :
                      x \in {NoFile, 2}, y \in {NoFile, 3}}
    /\ inode \in {[k \in {target[u] : u \in Units} \ {NoFile} |->
                     [data |-> compile(CHOOSE u \in Units : target[u] = k),
                      mtime |-> IF k = 2 THEN tx ELSE IF k = 3 THEN ty ELSE 1]] :
                    tx \in {1, 3}, ty \in {0, 2}}
    /\ store = EmptyStore
    /\ cacheDir = TRUE /\ pkgDir = TRUE /\ sameFS = TRUE
    /\ runs = 0 /\ envn = 0
    /\ hist = [saved |-> FALSE, src |-> srcData,
               rec |-> [u \in Units |-> NoRec],
               cleared |-> FALSE, wiped |-> FALSE]
    /\ proc \in {[p \in {1} |->
                    [LdIdle EXCEPT !.pc = "isStale", !.cmd = "restore",
                                   !.args = <<argZ>>, !.argi = 2,
                                   !.set = {argZ}, !.pkgs = <<pathZ>>,
                                   !.packageCache = C,
                                   !.all = <<pathRuntime, pathX, pathY, pathZ>>,
                                   !.i = 3, !.disk = srcData]] :
                   C \in StaleCaches}

NextStale == \E p \in Procs : cs_isStale(p)

SpecStale == InitStale /\ [][NextStale]_vars

\* The package isStale has just been called for.
evaluated(r) == r.pc = "isStale" /\ r.i > 1
justEvaluated(r) == r.packageCache[r.all[r.i - 1]]
noGoSources(pk) ==
    /\ Len(pk.GoFiles) = 0 /\ Len(pk.CgoFiles) = 0
    /\ Len(pk.TestGoFiles) = 0 /\ Len(pk.XTestGoFiles) = 0
    /\ ~pkUsesSwig(pk)

\* C21: a package without sources to compile is not stale once isStale
\* has been called for it, whatever its Error, its install path, its
\* Stale field before the call, the times of the files and the Stale flags
\* of its dependencies.
C21_NoSourceNeverStale ==
    [][\A p \in Procs :
          (evaluated(proc'[p]) /\ proc'[p].i = proc[p].i + 1
           /\ noGoSources(justEvaluated(proc'[p])))
          => ~justEvaluated(proc'[p]).Stale]_vars

\* C21, amended: a package that has no Error and no sources to compile is
\* not stale once isStale has been called for it.
C21_NoErrorNoSourceNeverStale ==
    [][\A p \in Procs :
          (evaluated(proc'[p]) /\ proc'[p].i = proc[p].i + 1
           /\ noGoSources(justEvaluated(proc'[p]))
           /\ justEvaluated(proc'[p]).Error = NoPackageError)
          => ~justEvaluated(proc'[p]).Stale]_vars

\* e.y, without sources and without error, has been evaluated while it
\* had no install path and e.x was stale, and is not stale.
C21_Witness ==
    \E p \in Procs :
        LET r == proc[p]
            C == r.packageCache
        IN
        /\ r.pc = "isStale" /\ r.i = 4
        /\ noGoSources(C[pathY]) /\ C[pathY].Error = NoPackageError
        /\ C[pathY].Target = NoTarget /\ C[pathX].Stale
        /\ ~C[pathY].Stale

\* The package isStale is called for in this step, before and after.
nextEvaluated(r) == r.packageCache[r.all[r.i]]
evaluates(r, r1) ==
    r.pc = "isStale" /\ r1.pc = "isStale" /\ r1.i = r.i + 1
inOtherTree(r, pk) ==
    \A k \in Range(r.pkgs) : r.packageCache[k].Root # pk.Root
plainCandidate(pk) ==
    /\ pk.Error = NoPackageError /\ Len(pk.GoFiles) > 0
    /\ pk.Target # NoTarget /\ ~pk.Stale

\* C22: a package in the tree of no root that has no error, has sources,
\* has an install path and is not marked stale is not stale once isStale
\* has been called for it, whatever the times of its sources, of its
\* installed file and of the installed files of its dependencies.
C22_OtherTreeNeverStale ==
    [][\A p \in Procs :
          (evaluates(proc[p], proc'[p])
           /\ plainCandidate(nextEvaluated(proc[p]))
           /\ inOtherTree(proc[p], nextEvaluated(proc[p])))
          => ~justEvaluated(proc'[p]).Stale]_vars

\* The installed file of the package is there with a time that is not
\* zero, and no dependency is stale or has an install path whose file is
\* missing or newer.
builtAfterDeps(C, pk) ==
    /\ installed(pk.Target) # NoFile
    /\ inode[installed(pk.Target)].mtime # 0
    /\ \A d \in Range(pk.deps) :
          /\ ~C[d].Stale
          /\ C[d].Target # NoTarget =>
                /\ installed(C[d].Target) # NoFile
                /\ inode[installed(C[d].Target)].mtime
                      <= inode[installed(pk.Target)].mtime

\* C22, amended: such a package, when it has a root tree, its installed
\* file exists and was built after its dependencies, and no dependency is
\* stale, is not stale whatever the times of its sources.
C22_OtherTreeIgnoresSourceTimes ==
    [][\A p \in Procs :
          (evaluates(proc[p], proc'[p])
           /\ plainCandidate(nextEvaluated(proc[p]))
           /\ inOtherTree(proc[p], nextEvaluated(proc[p]))
           /\ nextEvaluated(proc[p]).Root # ""
           /\ builtAfterDeps(proc[p].packageCache, nextEvaluated(proc[p])))
          => ~justEvaluated(proc'[p]).Stale]_vars

\* e.y of another tree has been evaluated not stale although y.go is newer
\* than its installed file.
C22_Witness ==
    \E p \in Procs :
        LET r == proc[p]
            C == r.packageCache
        IN
        /\ r.pc = "isStale" /\ r.i = 4
        /\ C[pathY].Root = "other" /\ C[pathZ].Root = "gopath"
        /\ C[pathY].Error = NoPackageError /\ Len(C[pathY].GoFiles) > 0
        /\ builtAfterDeps(C, C[pathY])
        /\ srcTime["y.go"] > inode[installed(C[pathY].Target)].mtime
        /\ ~C[pathY].Stale

(***************************************************************************)
(* save over the loaded packages.  The requests name packages of the       *)
(* sound tree, with the race option or without, and the directory ./s,     *)
(* which is in no tree and has no install path.  When the first save       *)
(* starts a source may be newer than the installed packages and the        *)
(* installed file of e.y may be gone.                                      *)
(***************************************************************************)
\* save, lines 466-479, up to the call of loadAll.
ld_save(p, tree, rev, args) ==
    /\ proc[p].pc = "idle" \/ proc[p].pc = "done"
    /\ \A q \in Procs : LdStopped(proc[q])
    /\ runs < MaxRuns
    /\ runs' = runs + 1
    /\ cacheDir' = TRUE
    /\ proc' = [proc EXCEPT ![p] =
                  [LdIdle EXCEPT !.pc = "pfb", !.cmd = "save",
                                 !.tree = tree, !.rev = rev, !.args = args,
                                 !.argi = 1, !.disk = srcData]]
    /\ UNCHANGED <<srcData, srcTime, clock, target, store, inode, pkgDir,
                   sameFS, envn, hist>>

\* A test that looks for the installed file only.
missingOnly(pk) == installed(pk.Target) = NoFile

\* line 485: pkg.Stale || !exists(pkg.Target)
notSaved(pk) == pk.Stale \/ installed(pk.Target) = NoFile

\* save, lines 481-497, for the next package of the list; linkOrCopy,
\* lines 434-464, with no other invocation at work: a hard link when the
\* cache directory is on the file system of the install path, a copy else.
ld_save_pkg(p) ==
    LET r == proc[p]
        key == r.all[r.i]
        pk == r.packageCache[key]
        C == pkFingerprint(srcData, r.packageCache, key)
        fp == C[key].fingerprint
        src == installed(pk.Target)
        k == newIno(inode)
    IN
    /\ r.pc = "save"
    /\ IF r.i > Len(r.all)
       THEN /\ proc' = [proc EXCEPT ![p].pc = "done"]
            /\ UNCHANGED <<store, inode>>
       ELSE IF pk.Standard /\ ~pk.race
       THEN /\ proc' = [proc EXCEPT ![p].i = @ + 1]
            /\ UNCHANGED <<store, inode>>
       ELSE IF notSaved(pk)
       THEN /\ proc' = [proc EXCEPT ![p].i = @ + 1,
                           ![p].out = Append(@, [tag |-> "-",
                                                 ImportPath |-> key,
                                                 fp |-> Dash])]
            /\ UNCHANGED <<store, inode>>
       ELSE IF fp = Fatal
       THEN /\ proc' = [proc EXCEPT ![p].pc = "fatal",
                                    ![p].packageCache = C]
            /\ UNCHANGED <<store, inode>>
       ELSE IF fp \in DOMAIN store
       THEN /\ proc' = [proc EXCEPT ![p].i = @ + 1, ![p].packageCache = C,
                           ![p].out = Append(@, [tag |-> " ",
                                                 ImportPath |-> key,
                                                 fp |-> fp])]
            /\ UNCHANGED <<store, inode>>
       ELSE /\ proc' = [proc EXCEPT ![p].i = @ + 1, ![p].packageCache = C,
                           ![p].out = Append(@, [tag |-> "*",
                                                 ImportPath |-> key,
                                                 fp |-> fp])]
            /\ IF sameFS
               THEN store' = (fp :> src) @@ store /\ inode' = inode
               ELSE /\ store' = (fp :> k) @@ store
                    /\ inode' = (k :> [data |-> inode[src].data,
                                       mtime |-> clock]) @@ inode
    /\ UNCHANGED <<srcData, srcTime, clock, target, cacheDir, pkgDir, sameFS,
                   runs, envn, hist>>

argLocal == pathLocal
SaveRequests == {<<argZ>>, <<argLocal, argZ>>, <<argZRace>>}

InitSaveLd ==
    /\ srcData = [f \in SrcFiles |-> <<"a">>]
    /\ srcTime \in {[[f \in SrcFiles |-> 1] EXCEPT !["x.go"] = t] :
                       t \in {1, 2}}
    /\ clock = 2
    /\ target \in {("runtime" :> 1 @@ "e.x" :> 2 @@ "e.y" :> y @@ "e.z" :> 4) :
                      y \in {NoFile, 3}}
    /\ inode = [k \in {target[u] : u \in Units} \ {NoFile} |->
                  [data |-> compile(CHOOSE u \in Units : target[u] = k),
                   mtime |-> 1]]
    /\ store = EmptyStore
    /\ cacheDir = FALSE /\ pkgDir = TRUE
    /\ sameFS \in BOOLEAN
    /\ runs = 0 /\ envn = 0
    /\ hist = [saved |-> FALSE, src |-> srcData,
               rec |-> [u \in Units |-> NoRec],
               cleared |-> FALSE, wiped |-> FALSE]
    /\ proc = [p \in {1} |-> LdIdle]

NextSaveLd ==
    \/ \E p \in Procs, args \in SaveRequests : ld_save(p, "ok", FALSE, args)
    \/ \E p \in Procs :
          \/ ld_arg(p) \/ ld_loadImport(p) \/ ld_load(p) \/ ld_return(p)
          \/ ld_computeStale(p) \/ ld_save_pkg(p)

SpecSaveLd == InitSaveLd /\ [][NextSaveLd]_vars

\* The step is one turn of the loop of save for a package.
savesNext(r, r1) == r.pc = "save" /\ r1.pc = "save" /\ r1.i = r.i + 1
lastLine(r) == r.out[Len(r.out)]

C24_StoreOwnsEntries ==
    \A fp \in DOMAIN store : \A u \in Units :
        target[u] # NoFile => target[u] # store[fp]

(***************************************************************************)
(* Two restore invocations at a time.  A save of e.x has left its entry in *)
(* the cache directory: a second name of the installed file when the cache *)
(* directory is on the file system of the install paths, a copy else.      *)
(***************************************************************************)
InitRestore ==
    /\ srcData = [f \in SrcFiles |-> <<"a">>]
    /\ srcTime = [f \in SrcFiles |-> 1]
    /\ clock = 1
    /\ target = ("runtime" :> 1 @@ "e.x" :> 2 @@ "e.y" :> 3 @@ "e.z" :> 4)
    /\ sameFS \in BOOLEAN
    /\ store = (FP("e.x") :> (IF sameFS THEN 2 ELSE 5))
    /\ inode = [k \in 1..(IF sameFS THEN 4 ELSE 5) |->
                  [data |-> compile(IF k = 5 THEN "e.x"
                                    ELSE CHOOSE u \in Units : target[u] = k),
                   mtime |-> 1]]
    /\ cacheDir = TRUE
    /\ pkgDir = TRUE
    /\ runs = 0 /\ envn = 0
    /\ hist = [saved |-> FALSE, src |-> srcData,
               rec |-> [u \in Units |-> NoRec],
               cleared |-> FALSE, wiped |-> FALSE]
    /\ proc = [p \in {1, 2} |-> Idle]

RestoreRequests == {<<"e.x">>}

NextRestore ==
    \/ \E p \in Procs, args \in RestoreRequests : main_restore(p, args)
    \/ \E p \in Procs : restore_get(p)
    \/ \E p \in Procs : restore_remove(p)
    \/ \E p \in Procs : restore_mkdir(p)
    \/ \E p \in Procs : loc_exists(p)
    \/ \E p \in Procs : loc_link(p)
    \/ \E p \in Procs : loc_open(p)
    \/ \E p \in Procs : loc_stat(p)
    \/ \E p \in Procs : loc_create(p)
    \/ \E p \in Procs : loc_copy(p)
    \/ \E p \in Procs : restore_chtimes(p)

SpecRestore == InitRestore /\ [][NextRestore]_vars

\* C25: with two restores of the same entry to the same install path, no
\* restore ends in a fatal error, and when both have finished the install
\* path holds the bytes of the entry.
C25_ConcurrentRestoresSucceed ==
    /\ \A p \in Procs : proc[p].cmd = "restore" => proc[p].pc # "fatal"
    /\ (\A p \in Procs : finished(proc[p], "restore")) =>
          /\ target["e.x"] # NoFile
          /\ inode[target["e.x"]].data = inode[store[FP("e.x")]].data

(***************************************************************************)
(* The loads of SpecLoad with computeStale one package at a time.          *)
(***************************************************************************)
NextWalk ==
    \/ \E p \in Procs, tree \in Trees, rev \in BOOLEAN, args \in LdRequests :
          ld_restore(p, tree, rev, args)
    \/ \E p \in Procs :
          \/ ld_arg(p) \/ ld_loadImport(p) \/ ld_load(p) \/ ld_return(p)
          \/ cs_packageList(p) \/ cs_isStale(p) \/ ld_restore_get(p)

SpecWalk == InitLoad /\ [][NextWalk]_vars

\* No package is among its own dependencies.
acyclic(C) == \A k \in DOMAIN C : k \notin Range(C[k].deps)
position(all, k) == {i \in 1..Len(all) : all[i] = k}

\* C26: when no package is among its own dependencies, every package is
\* once in the list computeStale walks, after all of its dependencies; and
\* a call of isStale sets the Stale flag of the package it is called for
\* and of no other, so the flag of a package that has been evaluated stays.
C26_PostOrderOnce ==
    /\ [](\A p \in Procs :
            LET r == proc[p]
                C == r.packageCache
            IN
            (r.pc = "isStale" /\ acyclic(C)) =>
                /\ \A i, j \in 1..Len(r.all) : r.all[i] = r.all[j] => i = j
                /\ \A i \in 1..Len(r.all) :
                      \A d \in Range(C[r.all[i]].deps) :
                          \E j \in 1..(i - 1) : r.all[j] = d)
    /\ [][\A p \in Procs :
            LET r == proc[p]
                C == r.packageCache
            IN
            (r.pc = "isStale" /\ acyclic(C)) =>
                \A k \in DOMAIN C :
                    C[k].Stale # proc'[p].packageCache[k].Stale
                    => (r.i <= Len(r.all) /\ r.all[r.i] = k)]_vars

\* computeStale has evaluated e.x, reached over e.y and over e.z, and e.y,
\* once each, and has come to e.z.
C26_Witness ==
    \E p \in Procs :
        LET r == proc[p]
            C == r.packageCache
        IN
        /\ r.pc = "isStale" /\ acyclic(C)
        /\ {pathX, pathY, pathZ} \subseteq DOMAIN C
        /\ pathX \in Range(C[pathY].imports)
        /\ pathX \in Range(C[pathZ].imports)
        /\ r.i <= Len(r.all) /\ r.all[r.i] = pathZ
        /\ Cardinality(position(r.all, pathX)) = 1
        /\ \E i, j \in 1..(r.i - 1) : r.all[i] = pathX /\ r.all[j] = pathY

(***************************************************************************)
(* What save inserts (Spec).                                               *)
(***************************************************************************)
\* C27: the bytes save has inserted for a package, under the fingerprint
\* of the sources as they were when the save ran, are the bytes the go
\* tool writes for the package from these sources.
C27_SavedArtifactMatchesSources ==
    \A u \in WsUnits :
        (hist.saved /\ hist.rec[u].tag = "*") =>
            /\ hist.rec[u].fp = fpAt(hist.src, u)
            /\ hist.rec[u].data = compileFrom(hist.src, u)

(***************************************************************************)
(* The bytes Package.Fingerprint writes to the hash, lines 990-1052, as a  *)
(* function of what it reads: the fingerprints of the dependencies it does *)
(* not pass over, the import path, the cgo flag lists, the names of the    *)
(* files and their bytes.                                                  *)
(***************************************************************************)
digestFlags(in) ==
    stringList(<< <<runtimeVersion>>, <<runtimeGOOS>>, <<runtimeGOARCH>>,
                  <<in.ImportPath>>, in.CgoCFLAGS, in.CgoCPPFLAGS,
                  in.CgoCXXFLAGS, in.CgoLDFLAGS, in.CgoPkgConfig >>)

digestInput(in) ==
    WriteAll(in.deps) \o WriteAll(digestFlags(in))
        \o hashFiles(in.disk, in.files)

\* The packages Fingerprint is called for: e.x or e.y, with a flag in
\* CgoCFLAGS or not, with the flag in CgoLDFLAGS or not, with a dependency
\* or none, with the file x.go or the files x.go and y.go, and with x.go
\* holding one byte or the bytes "a", "y.go", "a".
DigestInputs ==
    [ImportPath : {ImportPath["e.x"], ImportPath["e.y"]},
     CgoCFLAGS : {<<>>, << <<"-", "l">> >>},
     CgoCPPFLAGS : {<<>>}, CgoCXXFLAGS : {<<>>},
     CgoLDFLAGS : {<<>>, << <<"-", "l">> >>},
     CgoPkgConfig : {<<>>},
     deps : {<<>>, <<hexSum(<<"a">>)>>},
     files : {<<"x.go">>, <<"x.go", "y.go">>},
     disk : {[f \in SrcFiles |-> IF f = "x.go" THEN c ELSE <<"a">>] :
                c \in Contents
                       \cup {<<"a">> \o FileName["y.go"] \o <<"a">>}}]

InitDigest ==
    /\ srcData = [f \in SrcFiles |-> <<"a">>]
    /\ InitFS
    /\ cacheDir = TRUE /\ sameFS = TRUE
    /\ proc \in [{1, 2} -> {[pc |-> "Fingerprint", in |-> in, h |-> <<>>] :
                              in \in DigestInputs}]

fp_write(p) ==
    /\ proc[p].pc = "Fingerprint"
    /\ proc' = [proc EXCEPT ![p].pc = "done",
                            ![p].h = digestInput(proc[p].in)]
    /\ UNCHANGED <<srcData, srcTime, clock, target, store, inode, cacheDir,
                   pkgDir, sameFS, runs, envn, hist>>

NextDigest == \E p \in Procs : fp_write(p)

SpecDigest == InitDigest /\ [][NextDigest]_vars

\* C28: two calls of Fingerprint that differ in the import path, in a flag
\* list, in the name or the bytes of a file or in the fingerprint of a
\* dependency have written different bytes to the hash.
C28_InjectiveEncoding ==
    \A p, q \in Procs :
        (proc[p].pc = "done" /\ proc[q].pc = "done"
         /\ proc[p].in # proc[q].in)
        => proc[p].h # proc[q].h

(***************************************************************************)
(* The recursion of Package.Fingerprint over p.deps (SpecLoad).            *)
(***************************************************************************)
depKeys(C, k) == Range(C[k].deps)

\* C29: when the loop that calls Fingerprint has been reached, no package
\* of the list it walks has an error or is among its own dependencies, and
\* the dependencies of a dependency are dependencies too, the dependency
\* itself left out: each call of Fingerprint in the recursion is for a
\* package with fewer dependencies than its caller's.
C29_FingerprintWellFounded ==
    \A p \in Procs :
        LET r == proc[p]
            C == r.packageCache
        IN
        r.pc \in {"restore", "save"} =>
            /\ \A k \in Range(r.pkgs) : depKeys(C, k) \subseteq Range(r.all)
            /\ \A k \in Range(r.all) :
                  /\ C[k].Error = NoPackageError
                  /\ k \notin depKeys(C, k)
                  /\ \A d \in depKeys(C, k) :
                        depKeys(C, d) \subseteq depKeys(C, k) \ {d}

\* A restore of e.z has called Fingerprint for e.z, which has called it
\* for e.y, which has called it for e.x, and has printed the line of e.z.
C29_Witness ==
    \E p \in Procs :
        LET r == proc[p]
            C == r.packageCache
        IN
        /\ r.pc = "restore"
        /\ pathZ \in Range(r.pkgs)
        /\ pathY \in depKeys(C, pathZ) /\ pathX \in depKeys(C, pathY)
        /\ \E i \in 1..Len(r.out) :
              /\ r.out[i].ImportPath = pathZ
              /\ r.out[i].fp = C[pathZ].fingerprint
              /\ C[pathZ].fingerprint \notin {Nil, Fatal, <<>>}

====
